---- MODULE Spec2Model ----
(***************************************************************************)
(* Post-sale analytics module: the browser logging client                  *)
(* (frontend/utils/loggerClient.js), the event ingestion and aggregation   *)
(* endpoints (backend/logs/logController.js, backend/models/eventModel.js, *)
(* backend/api/routes/logRoutes.js) and the overview statistics            *)
(* (backend/api/controllers/statsController.js).                           *)
(***************************************************************************)
EXTENDS Integers, Sequences, FiniteSets

(***************************************************************************)
(* Bounds of the model.                                                    *)
(***************************************************************************)
\* events one page logs
MaxEvents == 3
\* failed deliveries (errorHandler calls) that are counted
MaxFailures == 2
\* records the event store holds
MaxStore == 2
\* last instant of the server clock; one unit is 30 days
MaxTime == 2
\* largest event count given to the overview rate arithmetic
MaxCount == 12
\* accounts the User collection holds
MaxUsers == 3
\* register requests that wait between their findOne and their save
MaxPending == 2
MaxSessions == 2
MaxProducts == 1
MaxImages == 3

VARIABLES
    \* ---- LoggerClient (browser) ----
    eventQueue,         \* this.eventQueue
    inflight,           \* batches handed to fetch / sendBeacon and not yet settled
    delivered,          \* per event id: how many times a batch holding it was accepted
    beaconed,           \* ids of the events handed to navigator.sendBeacon
    logged,             \* number of logEvent calls so far (ids are 1..logged)
    hasBeacon,          \* whether navigator.sendBeacon exists in this browser
    errorHandlerCalls,  \* number of this.errorHandler invocations, counted up to MaxFailures
    \* ---- backend ----
    store,              \* the Event collection, in insertion order
    now,                \* the server clock
    request,            \* the last HTTP request the server handled
    response,           \* the response the server sent to it
    fixture,            \* utils/data/dashboard.json: "absent", "present" or "corrupt"
    \* ---- admin accounts ----
    users,              \* the User collection, in insertion order
    pending,            \* register requests between their findOne and their save
    sessions,           \* the tokens login has issued, as their holders present them
    \* ---- product catalogue ----
    products,           \* the Product collection, in insertion order
    updates,            \* update requests between their findById and their write
    \* ---- AdminPanel (browser) ----
    panel               \* localStorage, axios defaults and the component's state

loggerVars == <<eventQueue, inflight, delivered, beaconed, logged, hasBeacon,
                errorHandlerCalls>>
backendVars == <<store, now, request, response, fixture>>
shopVars == <<sessions, products, updates, panel>>
adminVars == <<users, pending, shopVars>>
vars == <<eventQueue, inflight, delivered, beaconed, logged, hasBeacon,
          errorHandlerCalls, store, now, request, response, fixture, users, pending,
          sessions, products, updates, panel>>

(***************************************************************************)
(* JavaScript values, by the cases the code distinguishes.                 *)
(***************************************************************************)
JsUndefined == "undefined"
JsEmptyString == "''"
JsZero == "0"
JsObject == "{obj}"
Falsy == {JsUndefined, JsEmptyString, JsZero, "null", "false"}

\* !!v
Truthy(v) == v \notin Falsy

\* a || b
JsOr(a, b) == IF Truthy(a) THEN a ELSE b

(***************************************************************************)
(* LoggerClient                                                            *)
(***************************************************************************)
Severities == {"info", "warning", "error"}

EventIds == 1..MaxEvents

Ids(q) == {q[i].id : i \in 1..Len(q)}

IdSeq(q) == [i \in 1..Len(q) |-> q[i].id]

\* the body of one batch request: JSON.stringify({ events })
Flight(events, beacon, n) == [events |-> events, beacon |-> beacon, since |-> n]

\* catch block of flush: this.eventQueue = [...events, ...this.eventQueue]
Requeue(events, queue) == events \o queue

\* if (severity === 'error') this.flush()
FlushesNever(severity) == FALSE

FlushesImmediately(severity) == severity = "error"

\* flush(sync), up to the point where the request is handed to the browser;
\* q is this.eventQueue when flush is entered, n the number of events logged
flush(q, sync, n) ==
    IF Len(q) = 0
    THEN /\ eventQueue' = q
         /\ UNCHANGED <<inflight, beaconed>>
    ELSE /\ eventQueue' = <<>>
         /\ IF sync /\ hasBeacon
            THEN /\ beaconed' = beaconed \cup Ids(q)
                 \* sendBeacon answers whether the browser queued the data
                 /\ \E accepted \in BOOLEAN :
                        inflight' = IF accepted
                                    THEN inflight \cup {Flight(q, TRUE, n)}
                                    ELSE inflight
            ELSE /\ inflight' = inflight \cup {Flight(q, FALSE, n)}
                 /\ UNCHANGED beaconed

logEvent(severity) ==
    /\ logged < MaxEvents
    /\ logged' = logged + 1
    /\ LET event == [id |-> logged + 1, severity |-> severity]
           pushed == Append(eventQueue, event)
       IN  IF FlushesImmediately(severity)
           THEN flush(pushed, FALSE, logged + 1)
           ELSE /\ eventQueue' = pushed
                /\ UNCHANGED <<inflight, beaconed>>
    /\ UNCHANGED <<delivered, hasBeacon, errorHandlerCalls>>

\* setInterval(() => this.flush(), this.flushInterval)
TimerTick ==
    /\ flush(eventQueue, FALSE, logged)
    /\ UNCHANGED <<delivered, logged, hasBeacon, errorHandlerCalls>>

\* window.addEventListener('beforeunload', () => this.flush(true))
BeforeUnload ==
    /\ flush(eventQueue, TRUE, logged)
    /\ UNCHANGED <<delivered, logged, hasBeacon, errorHandlerCalls>>

MarkDelivered(events) ==
    [id \in EventIds |-> IF id \in Ids(events) THEN delivered[id] + 1 ELSE delivered[id]]

\* the awaited fetch of flight f settled with response.ok
FetchSucceeds(f) ==
    /\ f \in inflight
    /\ ~f.beacon
    /\ inflight' = inflight \ {f}
    /\ delivered' = MarkDelivered(f.events)
    /\ UNCHANGED <<eventQueue, beaconed, logged, hasBeacon, errorHandlerCalls>>

\* the awaited fetch of flight f rejected, or answered with !response.ok
FetchFails(f) ==
    /\ f \in inflight
    /\ ~f.beacon
    /\ inflight' = inflight \ {f}
    /\ eventQueue' = Requeue(f.events, eventQueue)
    /\ errorHandlerCalls' = IF errorHandlerCalls < MaxFailures
                            THEN errorHandlerCalls + 1
                            ELSE MaxFailures
    /\ UNCHANGED <<delivered, beaconed, logged, hasBeacon>>

\* a beacon the browser queued reaches the server, or does not; the page is
\* told neither
BeaconSettles(f, arrived) ==
    /\ f \in inflight
    /\ f.beacon
    /\ inflight' = inflight \ {f}
    /\ delivered' = IF arrived THEN MarkDelivered(f.events) ELSE delivered
    /\ UNCHANGED <<eventQueue, beaconed, logged, hasBeacon, errorHandlerCalls>>

\* the AdminPanel component before it is mounted: nothing in localStorage,
\* no default header, useState(false), useState(null), useState(true)
PanelUnmounted ==
    [ adminToken |-> "null", authorization |-> "none", isAuthenticated |-> FALSE,
      user |-> [email |-> "null", role |-> "null"], loading |-> TRUE,
      checkAuth |-> "idle", login |-> {} ]

ShopIdle ==
    /\ sessions = {}
    /\ products = <<>>
    /\ updates = {}
    /\ panel = PanelUnmounted

AdminIdle ==
    /\ users = <<>>
    /\ pending = {}
    /\ ShopIdle

BackendIdle ==
    /\ AdminIdle
    /\ store = <<>>
    /\ now = 0
    /\ request = [op |-> "none"]
    /\ response = [status |-> 0]
    /\ fixture = "absent"

InitLogger ==
    /\ eventQueue = <<>>
    /\ inflight = {}
    /\ delivered = [id \in EventIds |-> 0]
    /\ beaconed = {}
    /\ logged = 0
    /\ hasBeacon \in BOOLEAN
    /\ errorHandlerCalls = 0
    /\ BackendIdle

NextLogger ==
    \/ \E severity \in Severities : logEvent(severity) /\ UNCHANGED <<backendVars, adminVars>>
    \/ TimerTick /\ UNCHANGED <<backendVars, adminVars>>
    \/ BeforeUnload /\ UNCHANGED <<backendVars, adminVars>>
    \/ \E f \in inflight : FetchSucceeds(f) /\ UNCHANGED <<backendVars, adminVars>>
    \/ \E f \in inflight : FetchFails(f) /\ UNCHANGED <<backendVars, adminVars>>
    \/ \E f \in inflight, arrived \in BOOLEAN :
           BeaconSettles(f, arrived) /\ UNCHANGED <<backendVars, adminVars>>

SpecLogger == InitLogger /\ [][NextLogger]_vars

FairSpecLogger ==
    /\ InitLogger
    /\ [][NextLogger]_vars
    \* the interval timer keeps firing
    /\ WF_vars(TimerTick /\ UNCHANGED <<backendVars, adminVars>>)
    \* every fetch settles
    /\ WF_vars(\E f \in inflight :
                   (FetchSucceeds(f) \/ FetchFails(f)) /\ UNCHANGED <<backendVars, adminVars>>)
    \* deliveries of an event do not fail forever
    /\ \A id \in EventIds :
           SF_vars(\E f \in inflight :
                       id \in Ids(f.events) /\ FetchSucceeds(f) /\ UNCHANGED <<backendVars, adminVars>>)

(***************************************************************************)
(* Properties of the logging client                                        *)
(***************************************************************************)
IsAscending(s) == \A i, j \in 1..Len(s) : i < j => s[i] < s[j]

CountIn(q, id) == Cardinality({i \in 1..Len(q) : q[i].id = id})

FlightsHolding(id) == {f \in inflight : id \in Ids(f.events)}

InExactlyOnePlace(id) ==
    /\ \A f \in FlightsHolding(id) : CountIn(f.events, id) = 1
    /\ CountIn(eventQueue, id) + Cardinality(FlightsHolding(id)) + delivered[id] = 1

\* a batch never holds an event logged after the batch was copied
BatchesHoldNoLaterEvent ==
    \A f \in inflight : \A id \in Ids(f.events) : id <= f.since

\* this step is the catch block of the flush that sent f
FlushFailedStep(f) ==
    /\ f \in inflight
    /\ ~f.beacon
    /\ f \notin inflight'
    /\ delivered' = delivered

\* C1: after every failed flush, also with several flushes in flight that
\* fail in any order, the queue is the failed batch followed by the events
\* logged while that attempt was in flight, in the order they were logged,
\* none missing, repeated or reordered.
C1_FailedFlushRestoresLoggedOrder ==
    [][\A f \in inflight :
        FlushFailedStep(f) =>
            LET ids == IdSeq(eventQueue')
                k == Len(f.events)
            IN  /\ Len(ids) >= k
                /\ SubSeq(ids, 1, k) = IdSeq(f.events)
                /\ \A i \in (k + 1)..Len(ids) : ids[i] > f.since
                /\ IsAscending(ids)
                /\ \A id \in (f.since + 1)..logged :
                       \/ id \in Ids(eventQueue')
                       \/ delivered[id] > 0
                       \/ id \in beaconed
                       \/ \E g \in inflight' : id \in Ids(g.events)]_vars

\* C2 as stated: every logged event is in exactly one place (the queue, one
\* in-flight batch, or delivered once), for flush(false) and flush(true)
\* alike, and no batch holds an event logged after it was copied.
C2_EveryEventInExactlyOnePlace ==
    /\ \A id \in 1..logged : InExactlyOnePlace(id)
    /\ BatchesHoldNoLaterEvent

\* C3 as stated: with the timer firing and deliveries not failing forever,
\* every logged event is eventually delivered.
C3_EveryEventEventuallyDelivered ==
    \A id \in EventIds : (logged >= id) ~> (delivered[id] >= 1)

\* the event created by the logEvent call of this step
NewEvent ==
    CHOOSE e \in {eventQueue'[i] : i \in 1..Len(eventQueue')}
                 \cup UNION {{f.events[i] : i \in 1..Len(f.events)} : f \in inflight'} :
        e.id = logged'

\* C4: logEvent with severity "error" starts a fetch flush in the same call
\* whose batch is the queue as it was followed by the error event; logEvent
\* with another severity appends to the queue and starts no flush.
C4_ErrorSeverityFlushesInTheSameCall ==
    [][logged' = logged + 1 =>
        IF NewEvent.severity = "error"
        THEN /\ eventQueue' = <<>>
             /\ \E f \in inflight' \ inflight :
                    /\ ~f.beacon
                    /\ f.events = Append(eventQueue, NewEvent)
                    /\ inflight' = inflight \cup {f}
        ELSE /\ eventQueue' = Append(eventQueue, NewEvent)
             /\ inflight' = inflight]_vars

\* C4 witness: a batch started by an error event that holds the events
\* queued before it.
C4_Witness ==
    /\ errorHandlerCalls = 0
    /\ \E f \in inflight :
           /\ ~f.beacon
           /\ Len(f.events) >= 2
           /\ f.events[Len(f.events)].severity = "error"
           /\ f.events[1].severity # "error"

(***************************************************************************)
(* Backend: the Event collection and the ingestion endpoint                *)
(***************************************************************************)
FunnelStages ==
    <<"product_view", "product_customize", "cart_add", "checkout_start",
      "checkout_complete">>

EventTypes == {FunnelStages[i] : i \in 1..Len(FunnelStages)} \cup {"purchase"}

Anonymous == "anonymous"

Has(rec, name) == name \in DOMAIN rec

\* const { name } = req.body
Field(rec, name) == IF Has(rec, name) THEN rec[name] ELSE JsUndefined

\* if (!eventType || !sessionId || !eventData)
MissingRequiredIgnoresEventData(eventType, sessionId, eventData) ==
    ~Truthy(eventType) \/ ~Truthy(sessionId)

MissingRequired(eventType, sessionId, eventData) ==
    ~Truthy(eventType) \/ ~Truthy(sessionId) \/ ~Truthy(eventData)

\* isAuthenticated: !!userId
IsAuthenticatedAlways(userId) == TRUE

IsAuthenticatedOf(userId) == Truthy(userId)

\* new Event({...}) with the schema defaults; id is the new document's _id
EventDocument(req, id) ==
    [ _id             |-> id,
      eventType       |-> Field(req.body, "eventType"),
      userId          |-> JsOr(Field(req.body, "userId"), Anonymous),
      isAuthenticated |-> IsAuthenticatedOf(Field(req.body, "userId")),
      sessionId       |-> Field(req.body, "sessionId"),
      eventData       |-> Field(req.body, "eventData"),
      userAgent       |-> req.userAgent,
      ipAddress       |-> req.ip,
      pageUrl         |-> JsOr(Field(req.body, "pageUrl"), JsEmptyString),
      referrer        |-> JsOr(Field(req.body, "referrer"), JsEmptyString),
      timestamp       |-> now ]

\* logController.logEvent: the response and the collection after the call;
\* saveOk says whether event.save() resolves
logController_logEvent(req, saveOk) ==
    IF MissingRequired(Field(req.body, "eventType"), Field(req.body, "sessionId"),
                       Field(req.body, "eventData"))
    THEN [ store |-> store,
           response |-> [status |-> 400, success |-> FALSE] ]
    ELSE LET event == EventDocument(req, Len(store) + 1)
         IN  IF saveOk
             THEN [ store |-> Append(store, event),
                    response |-> [ status |-> 201, success |-> TRUE,
                                   event |-> [ id |-> event._id,
                                               eventType |-> event.eventType,
                                               timestamp |-> event.timestamp ] ] ]
             ELSE [ store |-> store,
                    response |-> [status |-> 500, success |-> FALSE] ]

HttpRequest(body) == [body |-> body, userAgent |-> "Mozilla", ip |-> "::1"]

\* no request is being answered
Idle == request.op = "none"

\* the response has gone out
ResponseSent ==
    /\ ~Idle
    /\ request' = [op |-> "none"]
    /\ response' = [status |-> 0]
    /\ UNCHANGED <<store, now, fixture>>

\* a capped collection in place of the events collection: a save into a
\* collection that holds an event overwrites the oldest one
LogEventRequestCapped(body, saveOk) ==
    LET result == logController_logEvent(HttpRequest(body), saveOk)
    IN  /\ Idle
        /\ Len(result.store) <= MaxStore
        /\ store' = IF Len(result.store) > Len(store) /\ Len(store) > 0
                    THEN Tail(result.store)
                    ELSE result.store
        /\ request' = [op |-> "logEvent", body |-> body, storeOk |-> saveOk]
        /\ response' = result.response
        /\ UNCHANGED <<now, fixture>>

\* POST /api/logs/event
LogEventRequest(body, saveOk) ==
    LET result == logController_logEvent(HttpRequest(body), saveOk)
    IN  /\ Idle
        /\ Len(result.store) <= MaxStore
        /\ store' = result.store
        /\ request' = [op |-> "logEvent", body |-> body, storeOk |-> saveOk]
        /\ response' = result.response
        /\ UNCHANGED <<now, fixture>>

\* the server clock advances
Tick ==
    /\ now < MaxTime
    /\ now' = now + 1
    /\ UNCHANGED <<store, request, response, fixture>>

LoggerIdle ==
    /\ eventQueue = <<>>
    /\ inflight = {}
    /\ delivered = [id \in EventIds |-> 0]
    /\ beaconed = {}
    /\ logged = 0
    /\ hasBeacon = FALSE
    /\ errorHandlerCalls = 0

IngestBodies ==
    [ eventType : {JsUndefined, JsEmptyString, "product_view", "purchase"},
      userId    : {JsUndefined, JsEmptyString, "u1", Anonymous},
      sessionId : {JsUndefined, JsEmptyString, "s1"},
      eventData : {JsUndefined, JsZero, JsObject} ]

InitIngest == LoggerIdle /\ BackendIdle

NextIngest ==
    \/ \E body \in IngestBodies, saveOk \in BOOLEAN :
           LogEventRequest(body, saveOk) /\ UNCHANGED <<loggerVars, adminVars>>
    \/ ResponseSent /\ UNCHANGED <<loggerVars, adminVars>>
    \/ Tick /\ UNCHANGED <<loggerVars, adminVars>>

SpecIngest == InitIngest /\ [][NextIngest]_vars

(***************************************************************************)
(* Properties of the ingestion endpoint                                    *)
(***************************************************************************)
RequiredFields == {"eventType", "sessionId", "eventData"}

AllPresent(body) == \A name \in RequiredFields : Field(body, name) # JsUndefined

AllTruthy(body) == \A name \in RequiredFields : Truthy(Field(body, name))

Last(q) == q[Len(q)]

\* this step handled an ingestion request
IngestStep == Idle /\ request'.op = "logEvent"

OneRecordAppended ==
    /\ Len(store') = Len(store) + 1
    /\ SubSeq(store', 1, Len(store)) = store
    /\ response'.status = 201
    /\ response'.event.id = Last(store')._id
    /\ \A i \in 1..Len(store) : store[i]._id # Last(store')._id

\* C6 as stated: every request whose body has eventType, sessionId and
\* eventData present (and whose save the store accepts) persists exactly one
\* new record and is answered 201 with its id; the stored isAuthenticated is
\* Boolean(userId), the stored userId the given one or "anonymous".
C6_PresentFieldsPersistOneRecord ==
    [][(IngestStep /\ request'.storeOk /\ AllPresent(request'.body)) =>
        /\ OneRecordAppended
        /\ Last(store').isAuthenticated = Truthy(Field(request'.body, "userId"))
        /\ Last(store').userId =
               IF Field(request'.body, "userId") # JsUndefined
               THEN Field(request'.body, "userId")
               ELSE Anonymous]_vars

\* C6 amended: every request whose eventType, sessionId and eventData are
\* truthy and whose save succeeds persists exactly one new record and is
\* answered 201 with its id; the stored isAuthenticated is Boolean(userId),
\* the stored userId is userId || "anonymous". A request in which one of the
\* three is present but falsy is answered 400 and persists nothing.
C6_TruthyFieldsPersistOneRecord ==
    [][IngestStep =>
        /\ (request'.storeOk /\ AllTruthy(request'.body)) =>
               /\ OneRecordAppended
               /\ Last(store').isAuthenticated = Truthy(Field(request'.body, "userId"))
               /\ Last(store').userId = JsOr(Field(request'.body, "userId"), Anonymous)
               /\ Last(store').eventType = request'.body.eventType
               /\ Last(store').sessionId = request'.body.sessionId
               /\ Last(store').eventData = request'.body.eventData
        /\ (AllPresent(request'.body) /\ ~AllTruthy(request'.body)) =>
               /\ response'.status = 400
               /\ store' = store]_vars

\* C6 witness: an anonymous event was stored after an authenticated one and
\* answered 201.
C6_Witness ==
    /\ request.op = "logEvent"
    /\ response.status = 201
    /\ Len(store) = 2
    /\ store[1].isAuthenticated /\ store[1].userId = "u1"
    /\ ~store[2].isAuthenticated /\ store[2].userId = Anonymous
    /\ request.body.userId = JsEmptyString

\* C7: a request in which eventType, sessionId or eventData is absent is
\* answered 400 and leaves the event store unchanged; every stored event has
\* all three fields.
C7_AbsentFieldRejectedAndNothingStored ==
    /\ [][(IngestStep /\ ~AllPresent(request'.body)) =>
            /\ response'.status = 400
            /\ store' = store]_vars
    /\ [](\A i \in 1..Len(store) :
            /\ store[i].eventType # JsUndefined
            /\ store[i].sessionId # JsUndefined
            /\ store[i].eventData # JsUndefined)

\* C7 witness: a request without eventData was answered 400 while the store
\* held an event.
C7_Witness ==
    /\ request.op = "logEvent"
    /\ Field(request.body, "eventData") = JsUndefined
    /\ Field(request.body, "eventType") # JsUndefined
    /\ Field(request.body, "sessionId") # JsUndefined
    /\ response.status = 400
    /\ Len(store) >= 1

\* C28: for every stored event, userId is the sentinel "anonymous" if and
\* only if isAuthenticated is false.
C28_AnonymousIffNotAuthenticated ==
    \A k \in DOMAIN store :
        (store[k].userId = Anonymous) <=> ~store[k].isAuthenticated

(***************************************************************************)
(* Backend: aggregation over a date window                                 *)
(***************************************************************************)
\* 30 * 24 * 60 * 60 * 1000 ms, in units of 30 days
ThirtyDays == 1

\* a date query parameter: absent, a string Date cannot parse, or a date
DateParams ==
    {[kind |-> "absent", t |-> 0], [kind |-> "invalid", t |-> 0]}
        \cup {[kind |-> "date", t |-> n] : n \in 0..MaxTime}

Queries == [startDate : DateParams, endDate : DateParams]

\* param ? new Date(param) : new Date(fallback)
DateOrDefault(param, fallback) ==
    IF param.kind = "absent"
    THEN [valid |-> TRUE, t |-> fallback]
    ELSE [valid |-> param.kind = "date", t |-> param.t]

StartOf(query) == DateOrDefault(query.startDate, now - ThirtyDays)

EndOf(query) == DateOrDefault(query.endDate, now)

\* timestamp: { $gte: start, $lte: end }
InWindowNoEnd(doc, start, end) == doc.timestamp >= start.t

InWindow(doc, start, end) == doc.timestamp >= start.t /\ doc.timestamp <= end.t

Matching(eventType, start, end) ==
    SelectSeq(store, LAMBDA doc : doc.eventType = eventType /\ InWindow(doc, start, end))

\* $group: { _id: '$eventType', count: { $sum: 1 } }
RECURSIVE SumByType(_, _)
SumByType(docs, acc) ==
    IF docs = <<>>
    THEN acc
    ELSE SumByType(Tail(docs), [acc EXCEPT ![Head(docs).eventType] = @ + 1])

Groups(docs) ==
    LET sums == SumByType(docs, [t \in EventTypes |-> 0])
    IN  {[_id |-> t, count |-> sums[t]] : t \in {u \in EventTypes : sums[u] > 0}}

\* $sort: { count: -1 }: every order of the groups the sort can return
SortedByCountDesc(groups) ==
    {s \in [1..Cardinality(groups) -> groups] :
        /\ \A i, j \in DOMAIN s : i # j => s[i] # s[j]
        /\ \A i, j \in DOMAIN s : i < j => s[i].count >= s[j].count}

\* Event.countByType(startDate, endDate); a Date object is truthy, so
\* endDate || new Date() is endDate
countByType(startDate, endDate) ==
    SortedByCountDesc(
        Groups(SelectSeq(store, LAMBDA doc : InWindow(doc, startDate, endDate))))

ServerError == [status |-> 500, success |-> FALSE]

\* GET /api/logs/counts: logController.getEventCounts. An Invalid Date makes
\* toISOString throw, a failing aggregate rejects: both end in the catch.
GetEventCountsRequest(query, storeOk) ==
    /\ Idle
    /\ request' = [op |-> "counts", query |-> query, storeOk |-> storeOk]
    /\ LET start == StartOf(query)
           end == EndOf(query)
       IN  IF storeOk /\ start.valid /\ end.valid
           THEN \E counts \in countByType(start, end) :
                    response' = [ status |-> 200, success |-> TRUE,
                                  period |-> [start |-> start.t, end |-> end.t],
                                  counts |-> counts ]
           ELSE response' = ServerError
    /\ UNCHANGED <<store, now, fixture>>

\* n / d rounded to the nearest integer, halves away from zero (toFixed)
Round(n, d) ==
    IF n >= 0 THEN (2 * n + d) \div (2 * d) ELSE -((2 * (-n) + d) \div (2 * d))

\* parseFloat(rate.toFixed(2)) of
\* funnelData[currentStage] > 0 ? (funnelData[nextStage] / funnelData[currentStage]) * 100 : 0
\* in hundredths of a percent
ConversionRateDefaultsTo100(next, current) ==
    IF current > 0 THEN Round(next * 10000, current) ELSE 10000

ConversionRate(next, current) ==
    IF current > 0 THEN Round(next * 10000, current) ELSE 0

\* GET /api/logs/funnel: logController.getFunnelData
GetFunnelDataRequest(query, storeOk) ==
    /\ Idle
    /\ request' = [op |-> "funnel", query |-> query, storeOk |-> storeOk]
    /\ LET start == StartOf(query)
           end == EndOf(query)
           funnelData ==
               [i \in 1..Len(FunnelStages) |-> Len(Matching(FunnelStages[i], start, end))]
           conversionRates ==
               [i \in 1..(Len(FunnelStages) - 1) |->
                   ConversionRate(funnelData[i + 1], funnelData[i])]
       IN  response' =
               IF storeOk /\ start.valid /\ end.valid
               THEN [ status |-> 200, success |-> TRUE,
                      period |-> [start |-> start.t, end |-> end.t],
                      funnelData |-> funnelData,
                      conversionRates |-> conversionRates ]
               ELSE ServerError
    /\ UNCHANGED <<store, now, fixture>>

CountOf(eventType, start, end) == Len(Matching(eventType, start, end))

\* the values getOverviewStats answers with when dashboard.json exists
FixtureOverview ==
    [ totalEvents |-> 1000, productViews |-> 450, productCustomizations |-> 200,
      cartAdds |-> 300, checkoutStarts |-> 150, checkoutCompletes |-> 100,
      conversionRate |-> 2220, cartAbandonmentRate |-> 6670 ]

\* conversionRate of getOverviewStats, parseFloat(toFixed(2)), in hundredths
\* of a percent: productViews > 0 ? (checkoutCompletes / productViews) * 100 : 0
OverviewConversionRateInverted(productViews, checkoutCompletes) ==
    IF checkoutCompletes > 0 THEN Round(productViews * 10000, checkoutCompletes) ELSE 0

OverviewConversionRate(productViews, checkoutCompletes) ==
    IF productViews > 0 THEN Round(checkoutCompletes * 10000, productViews) ELSE 0

\* cartAbandonmentRate of getOverviewStats, in hundredths of a percent:
\* cartAdds > 0 ? ((cartAdds - checkoutCompletes) / cartAdds) * 100 : 0
OverviewCartAbandonmentRate(cartAdds, checkoutCompletes) ==
    IF cartAdds > 0 THEN Round((cartAdds - checkoutCompletes) * 10000, cartAdds) ELSE 0

\* the counts and rates getOverviewStats computes from the collection;
\* rates in hundredths of a percent
ComputedOverview(start, end) ==
    LET productViews == CountOf("product_view", start, end)
        cartAdds == CountOf("cart_add", start, end)
        checkoutCompletes == CountOf("checkout_complete", start, end)
    IN  [ totalEvents |-> Len(SelectSeq(store, LAMBDA doc : InWindow(doc, start, end))),
          productViews |-> productViews,
          productCustomizations |-> CountOf("product_customize", start, end),
          cartAdds |-> cartAdds,
          checkoutStarts |-> CountOf("checkout_start", start, end),
          checkoutCompletes |-> checkoutCompletes,
          conversionRate |-> OverviewConversionRate(productViews, checkoutCompletes),
          cartAbandonmentRate |-> OverviewCartAbandonmentRate(cartAdds, checkoutCompletes) ]

\* GET /api/stats/overview: statsController.getOverviewStats
GetOverviewStatsRequest(query, storeOk) ==
    /\ Idle
    /\ request' = [op |-> "overview", query |-> query, storeOk |-> storeOk]
    /\ LET start == StartOf(query)
           end == EndOf(query)
           period == [start |-> start.t, end |-> end.t]
       IN  response' =
               IF fixture = "corrupt" \/ ~start.valid \/ ~end.valid
               THEN ServerError
               ELSE IF fixture = "present"
               THEN [ status |-> 200, success |-> TRUE, period |-> period,
                      stats |-> FixtureOverview ]
               ELSE IF storeOk
               THEN [ status |-> 200, success |-> TRUE, period |-> period,
                      stats |-> ComputedOverview(start, end) ]
               ELSE ServerError
    /\ UNCHANGED <<store, now, fixture>>

\* utils/generateMockData.js writes utils/data/dashboard.json
GenerateMockData ==
    /\ fixture' = "present"
    /\ UNCHANGED <<store, now, request, response>>

StatsBodies ==
    [eventType : EventTypes, sessionId : {"s1"}, eventData : {JsObject}]

InitStats == LoggerIdle /\ BackendIdle

NextStats ==
    \/ \E body \in StatsBodies, saveOk \in BOOLEAN :
           LogEventRequest(body, saveOk) /\ UNCHANGED <<loggerVars, adminVars>>
    \/ \E query \in Queries, storeOk \in BOOLEAN :
           GetEventCountsRequest(query, storeOk) /\ UNCHANGED <<loggerVars, adminVars>>
    \/ \E query \in Queries, storeOk \in BOOLEAN :
           GetFunnelDataRequest(query, storeOk) /\ UNCHANGED <<loggerVars, adminVars>>
    \/ ResponseSent /\ UNCHANGED <<loggerVars, adminVars>>
    \/ Tick /\ UNCHANGED <<loggerVars, adminVars>>

SpecStats == InitStats /\ [][NextStats]_vars

InitOverview ==
    /\ LoggerIdle
    /\ store = <<>>
    /\ now = 0
    /\ request = [op |-> "none"]
    /\ response = [status |-> 0]
    /\ fixture \in {"absent", "present", "corrupt"}
    /\ AdminIdle

NextOverview ==
    \/ \E body \in StatsBodies, saveOk \in BOOLEAN :
           LogEventRequest(body, saveOk) /\ UNCHANGED <<loggerVars, adminVars>>
    \/ \E query \in Queries, storeOk \in BOOLEAN :
           GetOverviewStatsRequest(query, storeOk) /\ UNCHANGED <<loggerVars, adminVars>>
    \/ GenerateMockData /\ UNCHANGED <<loggerVars, adminVars>>
    \/ ResponseSent /\ UNCHANGED <<loggerVars, adminVars>>
    \/ Tick /\ UNCHANGED <<loggerVars, adminVars>>

SpecOverview == InitOverview /\ [][NextOverview]_vars

\* the rate arithmetic of getOverviewStats applied to given counts
OverviewRatesOf(productViews, cartAdds, checkoutCompletes) ==
    /\ Idle
    /\ request' = [ op |-> "overviewRates", productViews |-> productViews,
                    cartAdds |-> cartAdds, checkoutCompletes |-> checkoutCompletes ]
    /\ response' =
           [ status |-> 200,
             stats |-> [ conversionRate |->
                             OverviewConversionRate(productViews, checkoutCompletes),
                         cartAbandonmentRate |->
                             OverviewCartAbandonmentRate(cartAdds, checkoutCompletes) ] ]
    /\ UNCHANGED <<store, now, fixture>>

NextOverviewRates ==
    \/ \E productViews \in 0..MaxCount, cartAdds \in 0..MaxCount,
          checkoutCompletes \in 0..MaxCount :
           OverviewRatesOf(productViews, cartAdds, checkoutCompletes) /\ UNCHANGED <<loggerVars, adminVars>>
    \/ ResponseSent /\ UNCHANGED <<loggerVars, adminVars>>

SpecOverviewRates == InitStats /\ [][NextOverviewRates]_vars

\* Math.floor(Math.random() * 30) + 30 for Desktop and for Mobile,
\* Math.floor(Math.random() * 10) + 5 for Tablet
DesktopDraws == 30..59

MobileDraws == 30..59

TabletDraws == 5..14

\* item.percentage = parseFloat((item.percentage / totalPercentage * 100).toFixed(2)),
\* in hundredths of a percent
NormalizedTruncated(percentage, totalPercentage) ==
    ((percentage * 1000) \div totalPercentage) * 10

Normalized(percentage, totalPercentage) == Round(percentage * 10000, totalPercentage)

\* deviceUsage of _generateMockData after the forEach that normalises it
deviceUsage(desktop, mobile, tablet) ==
    LET totalPercentage == desktop + mobile + tablet
    IN  << [device |-> "Desktop", raw |-> desktop,
            percentage |-> Normalized(desktop, totalPercentage)],
           [device |-> "Mobile", raw |-> mobile,
            percentage |-> Normalized(mobile, totalPercentage)],
           [device |-> "Tablet", raw |-> tablet,
            percentage |-> Normalized(tablet, totalPercentage)] >>

\* Event.findMostViewedProducts: $match product_view in the period, $group by
\* '$eventData.productId', $sort views -1, $limit. The event data of the model
\* carries no productId, so every matching view falls in the group of the
\* null key.
findMostViewedProducts(limit, startDate, endDate) ==
    LET views == Len(Matching("product_view",
                              DateOrDefault(startDate, now - ThirtyDays),
                              DateOrDefault(endDate, now)))
    IN  IF views = 0 \/ limit = 0
        THEN <<>>
        ELSE << [_id |-> "null", views |-> views] >>

\* statsController._getRealStats: the two queries over the last thirty days;
\* its catch block returns empty lists in place of the failed queries
GetRealStats(storeOk) ==
    LET startDate == [kind |-> "date", t |-> now - ThirtyDays]
        endDate == [kind |-> "date", t |-> now]
        period == [start |-> now - ThirtyDays, end |-> now]
    IN  IF storeOk
        THEN { [ topProducts |-> findMostViewedProducts(5, startDate, endDate),
                 eventCounts |-> eventCounts,
                 period |-> period ] :
                 eventCounts \in countByType([valid |-> TRUE, t |-> now - ThirtyDays],
                                             [valid |-> TRUE, t |-> now]) }
        ELSE { [ topProducts |-> <<>>, eventCounts |-> <<>>, period |-> period ] }

\* the parsed contents of utils/data/dashboard.json
FixtureDashboard == [file |-> "dashboard.json"]

\* GET /api/stats/dashboard: statsController.getDashboardData. With the
\* fixture file the answer is the file; without it the real statistics are
\* merged with the generated data, of which the model keeps the device usage.
GetDashboardDataRequest(desktop, mobile, tablet, storeOk) ==
    /\ Idle
    /\ request' = [op |-> "dashboard", storeOk |-> storeOk]
    /\ IF fixture = "corrupt"
       THEN response' = ServerError
       ELSE IF fixture = "present"
       THEN response' = [ status |-> 200, success |-> TRUE,
                          dashboardData |-> FixtureDashboard ]
       ELSE \E realStats \in GetRealStats(storeOk) :
                response' = [ status |-> 200, success |-> TRUE,
                              dashboardData |->
                                  [ topProducts |-> realStats.topProducts,
                                    eventCounts |-> realStats.eventCounts,
                                    period |-> realStats.period,
                                    deviceUsage |-> deviceUsage(desktop, mobile, tablet) ] ]
    /\ UNCHANGED <<store, now, fixture>>

NextDashboard ==
    \/ \E desktop \in DesktopDraws, mobile \in MobileDraws, tablet \in TabletDraws :
           GetDashboardDataRequest(desktop, mobile, tablet, TRUE)
               /\ UNCHANGED <<loggerVars, adminVars>>
    \/ ResponseSent /\ UNCHANGED <<loggerVars, adminVars>>

SpecDashboard == InitStats /\ [][NextDashboard]_vars

\* Event.findByTypeAndPeriod(...).limit(n): the events of the type in the
\* period, newest first; events of equal timestamp come in either order
findByTypeAndPeriod(eventType, startDate, endDate, limit) ==
    LET found == Matching(eventType, startDate, endDate)
        n == Len(found)
        orders == {p \in [1..n -> 1..n] :
                      /\ \A i, j \in 1..n : i # j => p[i] # p[j]
                      /\ \A i, j \in 1..n :
                             i < j => found[p[i]].timestamp >= found[p[j]].timestamp}
        kept == IF limit < n THEN limit ELSE n
    IN  {[i \in 1..kept |-> found[p[i]]] : p \in orders}

EventLimits == {1, 100}

\* GET /api/logs/events/:type: logController.getEventsByType. The period
\* starts seven days back by default, less than one unit of the model's
\* clock, so it holds the events of the current instant.
GetEventsByTypeRequest(type, query, limit, storeOk) ==
    /\ Idle
    /\ request' = [op |-> "eventsByType", type |-> type, query |-> query,
                   storeOk |-> storeOk]
    /\ LET start == DateOrDefault(query.startDate, now)
           end == DateOrDefault(query.endDate, now)
       IN  IF storeOk /\ start.valid /\ end.valid
           THEN \E events \in findByTypeAndPeriod(type, start, end, limit) :
                    response' = [ status |-> 200, success |-> TRUE,
                                  count |-> Len(events), events |-> events ]
           ELSE response' = ServerError
    /\ UNCHANGED <<store, now, fixture>>

\* the date parameters that parse
ValidDateParams == {param \in DateParams : param.kind # "invalid"}

\* GET /api/logs/most-viewed: logController.getMostViewedProducts
GetMostViewedProductsRequest(query, limit, storeOk) ==
    /\ Idle
    /\ request' = [op |-> "mostViewed", query |-> query, storeOk |-> storeOk]
    /\ LET mostViewed == findMostViewedProducts(limit, query.startDate, query.endDate)
       IN  response' =
               IF storeOk
               THEN [ status |-> 200, success |-> TRUE,
                      count |-> Len(mostViewed), products |-> mostViewed ]
               ELSE ServerError
    /\ UNCHANGED <<store, now, fixture>>

TrendMetrics == {"undefined", "sales", "visitors"}

TrendPeriods == {"7d", "30d", "90d", "1y", "2w"}

\* the switch of getTrendsData: the length of the period in days
PeriodDays(period) ==
    CASE period = "7d" -> 7
      [] period = "90d" -> 90
      [] period = "1y" -> 365
      [] OTHER -> 30

\* GET /api/stats/trends: statsController.getTrendsData. The points are
\* either the dailySales of the fixture file or random draws of
\* _generateTrendsData, one for each day; the model keeps where they come
\* from and how many days the period has.
GetTrendsDataRequest(metric, period) ==
    /\ Idle
    /\ request' = [op |-> "trends", metric |-> metric, period |-> period]
    /\ response' =
           IF fixture = "corrupt"
           THEN ServerError
           ELSE [ status |-> 200, success |-> TRUE,
                  period |-> [days |-> PeriodDays(period), end |-> now, label |-> period],
                  metric |-> metric,
                  trendsData |->
                      IF fixture = "present" /\ metric = "sales"
                      THEN "mockData.dailySales"
                      ELSE "_generateTrendsData" ]
    /\ UNCHANGED <<store, now, fixture>>

ApiBodies ==
    [eventType : {"product_view", "purchase"}, sessionId : {"s1"}, eventData : {JsObject}]

ApiQueries ==
    [ startDate : {[kind |-> "absent", t |-> 0], [kind |-> "date", t |-> 0]},
      endDate : {[kind |-> "absent", t |-> 0], [kind |-> "invalid", t |-> 0]} ]

\* every endpoint of the API that reads or writes the event collection or
\* answers with statistics
NextApi ==
    \/ \E body \in ApiBodies, saveOk \in BOOLEAN :
           LogEventRequest(body, saveOk) /\ UNCHANGED <<loggerVars, adminVars>>
    \/ \E type \in {"product_view", "purchase"}, query \in ApiQueries,
          limit \in EventLimits, storeOk \in BOOLEAN :
           GetEventsByTypeRequest(type, query, limit, storeOk)
               /\ UNCHANGED <<loggerVars, adminVars>>
    \/ \E query \in ApiQueries, storeOk \in BOOLEAN :
           GetEventCountsRequest(query, storeOk) /\ UNCHANGED <<loggerVars, adminVars>>
    \/ \E query \in [startDate : ValidDateParams, endDate : {[kind |-> "absent", t |-> 0]}],
          limit \in EventLimits, storeOk \in BOOLEAN :
           GetMostViewedProductsRequest(query, limit, storeOk)
               /\ UNCHANGED <<loggerVars, adminVars>>
    \/ \E query \in ApiQueries, storeOk \in BOOLEAN :
           GetFunnelDataRequest(query, storeOk) /\ UNCHANGED <<loggerVars, adminVars>>
    \/ \E query \in ApiQueries, storeOk \in BOOLEAN :
           GetOverviewStatsRequest(query, storeOk) /\ UNCHANGED <<loggerVars, adminVars>>
    \/ \E desktop \in {30, 59}, mobile \in {30}, tablet \in {5, 14}, storeOk \in BOOLEAN :
           GetDashboardDataRequest(desktop, mobile, tablet, storeOk)
               /\ UNCHANGED <<loggerVars, adminVars>>
    \/ \E metric \in TrendMetrics, period \in TrendPeriods :
           GetTrendsDataRequest(metric, period) /\ UNCHANGED <<loggerVars, adminVars>>
    \/ GenerateMockData /\ UNCHANGED <<loggerVars, adminVars>>
    \/ ResponseSent /\ UNCHANGED <<loggerVars, adminVars>>
    \/ Tick /\ UNCHANGED <<loggerVars, adminVars>>

SpecApi == InitOverview /\ [][NextApi]_vars

(***************************************************************************)
(* Properties of the aggregation endpoints                                 *)
(***************************************************************************)
\* the stored events of a type whose timestamp lies in the answered period
StoredInPeriod(eventType) ==
    {k \in 1..Len(store) :
        /\ store[k].eventType = eventType
        /\ store[k].timestamp >= response.period.start
        /\ store[k].timestamp <= response.period.end}

ValidDates(query) == query.startDate.kind # "invalid" /\ query.endDate.kind # "invalid"

\* the answered period is the window the request asked for
PeriodIsRequested ==
    /\ request.query.startDate.kind = "date" =>
           response.period.start = request.query.startDate.t
    /\ request.query.endDate.kind = "date" =>
           response.period.end = request.query.endDate.t

AnswersWhenStoreAnswers ==
    (request.storeOk /\ ValidDates(request.query)) => response.status = 200

\* C8: a GET /api/logs/counts that the store answers reports, for the
\* window [startDate, endDate], exactly one group per event type that has a
\* stored event with a timestamp in the window, and the group's count is
\* the number of those events; so an ingested event of type T is counted by
\* every later request whose window holds its timestamp.
C8_CountsMatchStoredEvents ==
    request.op = "counts" =>
        /\ AnswersWhenStoreAnswers
        /\ response.status = 200 =>
               /\ PeriodIsRequested
               /\ \A eventType \in EventTypes :
                      LET n == Cardinality(StoredInPeriod(eventType))
                          groups == {i \in DOMAIN response.counts :
                                        response.counts[i]._id = eventType}
                      IN  IF n > 0
                          THEN /\ Cardinality(groups) = 1
                               /\ \A i \in groups : response.counts[i].count = n
                          ELSE groups = {}

\* C8 witness: counts were reported for a window that holds one stored
\* event and leaves another one out.
C8_Witness ==
    /\ request.op = "counts"
    /\ response.status = 200
    /\ Len(response.counts) >= 1
    /\ \E k \in 1..Len(store) :
           store[k].timestamp < response.period.start
               \/ store[k].timestamp > response.period.end

\* C9: in the funnel statistics the conversion rate of an adjacent pair of
\* stages is 0 whenever the earlier stage has no event in the window,
\* whatever the later stage's count, and the request is answered 200.
C9_ZeroRateWhenEarlierStageEmpty ==
    request.op = "funnel" =>
        /\ AnswersWhenStoreAnswers
        /\ response.status = 200 =>
               /\ PeriodIsRequested
               /\ \A i \in 1..(Len(FunnelStages) - 1) :
                      (StoredInPeriod(FunnelStages[i]) = {} \/ response.funnelData[i] = 0)
                          => response.conversionRates[i] = 0

\* C9 witness: two pairs whose earlier stage is empty and whose later stage
\* is not.
C9_Witness ==
    /\ request.op = "funnel"
    /\ response.status = 200
    /\ response.funnelData[2] = 0 /\ response.funnelData[3] > 0
    /\ response.funnelData[4] = 0 /\ response.funnelData[5] > 0
    /\ response.conversionRates[2] = 0 /\ response.conversionRates[4] = 0

\* C10: GET /api/stats/overview for a window without a cart_add event
\* answers cartAbandonmentRate 0, and conversionRate 0 when the window has
\* no product_view event, also when the fixture file is present.
C10_OverviewRatesZeroWithoutEvents ==
    (request.op = "overview" /\ response.status = 200) =>
        /\ StoredInPeriod("cart_add") = {} => response.stats.cartAbandonmentRate = 0
        /\ StoredInPeriod("product_view") = {} => response.stats.conversionRate = 0

\* C11: a GET /api/stats/overview answered 200 reports, for each of the six
\* counts, the number of stored events of the matching type with a
\* timestamp in [start, end], and both rates are computed from those counts.
C11_OverviewCountsMatchStoredEvents ==
    (request.op = "overview" /\ response.status = 200) =>
        LET stats == response.stats
            views == Cardinality(StoredInPeriod("product_view"))
            adds == Cardinality(StoredInPeriod("cart_add"))
            completes == Cardinality(StoredInPeriod("checkout_complete"))
        IN  /\ stats.totalEvents =
                   Cardinality(UNION {StoredInPeriod(eventType) : eventType \in EventTypes})
            /\ stats.productViews = views
            /\ stats.productCustomizations = Cardinality(StoredInPeriod("product_customize"))
            /\ stats.cartAdds = adds
            /\ stats.checkoutStarts = Cardinality(StoredInPeriod("checkout_start"))
            /\ stats.checkoutCompletes = completes
            /\ views > 0 => stats.conversionRate = Round(completes * 10000, views)
            /\ adds > 0 => stats.cartAbandonmentRate = Round((adds - completes) * 10000, adds)

\* C12: for non-negative counts with completes <= views and completes <= adds
\* the overview conversionRate and cartAbandonmentRate are both in [0, 100]
\* (0..10000 hundredths of a percent).
C12_OverviewRatesWithinZeroAndHundred ==
    ( /\ request.op = "overviewRates"
      /\ request.checkoutCompletes <= request.productViews
      /\ request.checkoutCompletes <= request.cartAdds ) =>
        /\ response.stats.conversionRate \in 0..10000
        /\ response.stats.cartAbandonmentRate \in 0..10000

\* C12 witness: rates were computed for counts that fulfil the precondition
\* and give neither 0 nor 100.
C12_Witness ==
    /\ request.op = "overviewRates"
    /\ 0 < request.checkoutCompletes
    /\ request.checkoutCompletes < request.productViews
    /\ request.checkoutCompletes < request.cartAdds
    /\ response.stats.conversionRate \in 1..9999
    /\ response.stats.cartAbandonmentRate \in 1..9999

\* the sum of the three device-usage percentages, in hundredths of a percent
DeviceUsageSum ==
    LET usage == response.dashboardData.deviceUsage
    IN  usage[1].percentage + usage[2].percentage + usage[3].percentage

\* C13: for every outcome of the random draws the three device-usage
\* percentages, normalised and rounded to two decimals, sum to 100 within
\* the rounding epsilon (three roundings of at most half a hundredth each,
\* so the sum of hundredths is off by at most one).
C13_DeviceUsageSumsToHundred ==
    request.op = "dashboard" =>
        /\ DeviceUsageSum >= 10000 - 1
        /\ DeviceUsageSum <= 10000 + 1

\* C13 witness: draws whose rounded percentages do not sum to exactly 100.
C13_Witness ==
    /\ request.op = "dashboard"
    /\ DeviceUsageSum # 10000

\* the requests whose handler reads the event collection
ReadOps == {"eventsByType", "counts", "mostViewed", "funnel", "overview", "dashboard"}

\* C27: the event store is append-only. In every step of the API every
\* event that is stored is still stored afterwards, at the same place and
\* with every field as it was.
C27_EventStoreIsAppendOnly ==
    [][\A k \in 1..Len(store) : k <= Len(store') /\ store'[k] = store[k]]_vars

\* C27 witness: two events are stored, the second saved after the first,
\* and a reading endpoint has answered from them.
C27_Witness ==
    /\ Len(store) >= 2
    /\ store[2].timestamp > store[1].timestamp
    /\ request.op \in ReadOps
    /\ response.status = 200

\* the request that is being answered had its store query fail: the
\* handler got as far as the query and the store did not answer it
QueryFails(req) ==
    /\ req.op \in ReadOps
    /\ ~req.storeOk
    /\ req.op = "overview" =>
           /\ fixture = "absent"
           /\ StartOf(req.query).valid /\ EndOf(req.query).valid
    /\ req.op = "dashboard" => fixture = "absent"

\* C22: in every statistics or aggregation handler a failing store query
\* produces a 500 response; none answers 200 with substitute results.
C22_FailingQueryAnswers500 ==
    [][(Idle /\ ~Idle' /\ QueryFails(request')) => response'.status = 500]_vars

\* the fields of a statistics answer that carry its status and its data
PayloadFields ==
    {"status", "success", "period", "stats", "dashboardData", "metric", "trendsData"}

\* the answer is built from the fixture file, from hardcoded values or from
\* generated data
Substituted(req) ==
    \/ req.op \in {"dashboard", "trends"}
    \/ req.op = "overview" /\ fixture = "present"

\* C23: a statistics answer built from the fixture file, from hardcoded
\* values or from generated data carries a degraded-mode flag, a field
\* besides its status and data, that tells it apart from an answer computed
\* from the stored events.
C23_SubstitutedAnswerCarriesFlag ==
    [][(Idle /\ ~Idle' /\ Substituted(request') /\ response'.status = 200)
          => DOMAIN response' \ PayloadFields # {}]_vars

(***************************************************************************)
(* The logging client talking to this backend                              *)
(***************************************************************************)
\* app.use('/api/logs', logRoutes) and the routes of logRoutes.js; a path
\* is the sequence of its segments
LogRoutes ==
    { [method |-> "POST", path |-> <<"api", "logs", "event">>, handler |-> "logEvent"],
      [method |-> "GET", path |-> <<"api", "logs", "events", ":type">>,
       handler |-> "getEventsByType"],
      [method |-> "GET", path |-> <<"api", "logs", "counts">>, handler |-> "getEventCounts"],
      [method |-> "GET", path |-> <<"api", "logs", "most-viewed">>,
       handler |-> "getMostViewedProducts"],
      [method |-> "GET", path |-> <<"api", "logs", "funnel">>, handler |-> "getFunnelData"] }

\* the named segments of the route patterns
PathParams == {":type", ":id"}

SegmentsMatch(pattern, path) ==
    /\ Len(pattern) = Len(path)
    /\ \A i \in 1..Len(path) : pattern[i] \in PathParams \/ pattern[i] = path[i]

\* the handler express picks, or the final 404 middleware
Route(method, path) ==
    LET hits == {r \in LogRoutes : r.method = method /\ SegmentsMatch(r.path, path)}
    IN  IF hits = {} THEN "notFound" ELSE (CHOOSE r \in hits : TRUE).handler

\* this.apiUrl: `${baseApiUrl}/api/logs`
ApiUrl == <<"api", "logs">>

\* this.apiUrl + '/batch'
BatchUrl == ApiUrl \o <<"batch">>

\* one event as logEvent builds it
ClientEvent(e) ==
    [ eventType |-> "page_view", sessionId |-> "sess_1", userId |-> "null",
      timestamp |-> e.id, severity |-> e.severity, data |-> JsObject,
      url |-> "http://shop/", userAgent |-> "Mozilla" ]

\* JSON.stringify({ events })
BatchBody(events) == [events |-> [i \in 1..Len(events) |-> ClientEvent(events[i])]]

\* fetch's response.ok
ResponseOk(status) == status >= 200 /\ status <= 299

\* the server's answer to a POST of the client
ServerHandle(method, path, body, saveOk) ==
    IF Route(method, path) = "logEvent"
    THEN logController_logEvent(HttpRequest(body), saveOk)
    ELSE [store |-> store, response |-> [status |-> 404]]

\* the backend answers the request of flight f
BackendAnswers(f, saveOk) ==
    LET result == ServerHandle("POST", BatchUrl, BatchBody(f.events), saveOk)
    IN  /\ f \in inflight
        /\ Len(result.store) <= MaxStore
        /\ store' = result.store
        /\ request' = [op |-> "batch", body |-> BatchBody(f.events), storeOk |-> saveOk]
        /\ response' = result.response
        /\ UNCHANGED <<now, fixture>>
        /\ IF f.beacon
           THEN BeaconSettles(f, ResponseOk(result.response.status))
           ELSE IF ResponseOk(result.response.status)
           THEN FetchSucceeds(f)
           ELSE FetchFails(f)

InitEndToEnd == InitLogger

NextEndToEnd ==
    \/ \E severity \in Severities : logEvent(severity) /\ UNCHANGED <<backendVars, adminVars>>
    \/ TimerTick /\ UNCHANGED <<backendVars, adminVars>>
    \/ BeforeUnload /\ UNCHANGED <<backendVars, adminVars>>
    \/ \E f \in inflight, saveOk \in BOOLEAN : BackendAnswers(f, saveOk) /\ UNCHANGED adminVars

SpecEndToEnd == InitEndToEnd /\ [][NextEndToEnd]_vars

\* C5: an event logged through the client and flushed while the backend is
\* reachable is accepted by the ingestion route and stored as one Event
\* record: the batch request is answered with success and the store grows
\* by one record per event of the batch.
C5_FlushedEventsReachTheStore ==
    [][\A f \in inflight :
        (f \notin inflight' /\ request'.op = "batch" /\ request'.storeOk) =>
            /\ ResponseOk(response'.status)
            /\ Len(store') = Len(store) + Len(f.events)]_vars

(***************************************************************************)
(* Authentication middleware and the routes it guards                      *)
(***************************************************************************)
\* process.env.JWT_SECRET || 'seu_jwt_secret'
JwtSecret == "seu_jwt_secret"

\* userSchema.role.enum
Roles == {"user", "admin", "manager"}

\* what follows 'Bearer ' in the Authorization header: a string that is no
\* JWT, or a JWT with the key that signed it, its expiry and its role claim
Tokens ==
    [ kind : {"garbage"}, signedWith : {"none"}, expired : {FALSE}, role : {JsUndefined} ]
        \cup [ kind : {"jwt"}, signedWith : {JwtSecret, "other_secret"},
               expired : BOOLEAN, role : Roles \cup {JsUndefined} ]

NoToken == [kind |-> "garbage", signedWith |-> "none", expired |-> FALSE, role |-> JsUndefined]

\* req.headers.authorization: absent, another scheme, or 'Bearer <token>'
AuthHeaders ==
    [scheme : {"absent", "Basic"}, token : {NoToken}] \cup [scheme : {"Bearer"}, token : Tokens]

\* jwt.verify(token, secret) returns the payload instead of throwing
jwtVerifyIgnoresExpiry(token, secret) ==
    token.kind = "jwt" /\ token.signedWith = secret

jwtVerify(token, secret) ==
    token.kind = "jwt" /\ token.signedWith = secret /\ ~token.expired

\* req.user && req.user.role === 'admin'
HasAdminRole(user) == user.role = "admin"

\* res.status(code).json(...) sent by a middleware: the handler is not called
Rejected(code) == [status |-> code, handlerCalls |-> 0, user |-> NoToken]

\* the downstream handler, called once with req.user set
Downstream(user) == [status |-> 200, handlerCalls |-> 1, user |-> user]

\* a middleware that looks the account of the token up and rejects the
\* token of an account that is missing or deactivated
isAuthenticatedChecksAccount(authHeader) ==
    IF authHeader.scheme # "Bearer"
    THEN Rejected(401)
    ELSE IF ~jwtVerify(authHeader.token, JwtSecret)
    THEN Rejected(401)
    ELSE IF \E i \in DOMAIN users :
                users[i].id = authHeader.token.id /\ users[i].isActive
    THEN Downstream(authHeader.token)
    ELSE Rejected(401)

\* isAuthenticated(req, res, next): the rejection it sends, or the call
\* of next with req.user set
isAuthenticated(authHeader) ==
    IF authHeader.scheme # "Bearer"
    THEN Rejected(401)
    ELSE IF ~jwtVerify(authHeader.token, JwtSecret)
    THEN Rejected(401)
    ELSE Downstream(authHeader.token)

\* isAdmin(req, res, next): isAuthenticated with a continuation that checks
\* the role before it calls next
isAdmin(authHeader) ==
    LET authenticated == isAuthenticated(authHeader)
    IN  IF authenticated.handlerCalls = 0 THEN authenticated
        ELSE IF HasAdminRole(authenticated.user) THEN Downstream(authenticated.user)
        ELSE Rejected(403)

\* the middleware a route names before its handler
Gates == {"none", "isAuthenticated", "isAdmin"}

Guarded(gate, authHeader) ==
    CASE gate = "isAuthenticated" -> isAuthenticated(authHeader)
      [] gate = "isAdmin" -> isAdmin(authHeader)
      [] OTHER -> Downstream(authHeader.token)

\* a request through one of the two middlewares
MiddlewareRequest(gate, authHeader) ==
    /\ Idle
    /\ request' = [op |-> "middleware", gate |-> gate, authHeader |-> authHeader]
    /\ response' = Guarded(gate, authHeader)
    /\ UNCHANGED <<store, now, fixture>>

\* the routes in the order express registers them (server entry, route
\* files): method, path segments, middleware, handler
ApiRoutes ==
    << [method |-> "POST", path |-> <<"api", "logs", "event">>, gate |-> "none",
        handler |-> "logEvent"],
       [method |-> "GET", path |-> <<"api", "logs", "events", ":type">>, gate |-> "none",
        handler |-> "getEventsByType"],
       [method |-> "GET", path |-> <<"api", "logs", "counts">>, gate |-> "none",
        handler |-> "getEventCounts"],
       [method |-> "GET", path |-> <<"api", "logs", "most-viewed">>, gate |-> "none",
        handler |-> "getMostViewedProducts"],
       [method |-> "GET", path |-> <<"api", "logs", "funnel">>, gate |-> "none",
        handler |-> "getFunnelData"],
       [method |-> "GET", path |-> <<"api", "stats">>, gate |-> "none",
        handler |-> "statsInfo"],
       [method |-> "GET", path |-> <<"api", "stats", "overview">>, gate |-> "none",
        handler |-> "getOverviewStats"],
       [method |-> "GET", path |-> <<"api", "stats", "dashboard">>, gate |-> "none",
        handler |-> "getDashboardData"],
       [method |-> "GET", path |-> <<"api", "stats", "trends">>, gate |-> "isAdmin",
        handler |-> "getTrendsData"],
       [method |-> "GET", path |-> <<"api", "stats", "public">>, gate |-> "none",
        handler |-> "publicStats"],
       [method |-> "GET", path |-> <<"api", "admin">>, gate |-> "isAdmin",
        handler |-> "adminInfo"],
       [method |-> "POST", path |-> <<"api", "admin", "users", "register">>,
        gate |-> "isAdmin", handler |-> "register"],
       [method |-> "POST", path |-> <<"api", "admin", "users", "login">>, gate |-> "none",
        handler |-> "login"],
       [method |-> "GET", path |-> <<"api", "admin", "users", "profile">>,
        gate |-> "isAuthenticated", handler |-> "getProfile"],
       [method |-> "GET", path |-> <<"api", "admin", "users">>, gate |-> "isAdmin",
        handler |-> "getAllUsers"],
       [method |-> "PUT", path |-> <<"api", "admin", "users", ":id">>, gate |-> "isAdmin",
        handler |-> "updateUser"],
       [method |-> "POST", path |-> <<"api", "admin", "users", "change-password">>,
        gate |-> "isAuthenticated", handler |-> "changePassword"],
       [method |-> "POST", path |-> <<"api", "admin", "products">>, gate |-> "isAdmin",
        handler |-> "createProduct"],
       [method |-> "GET", path |-> <<"api", "admin", "products">>, gate |-> "isAdmin",
        handler |-> "getAllProducts"],
       [method |-> "GET", path |-> <<"api", "admin", "products", "stats">>,
        gate |-> "isAdmin", handler |-> "getProductStats"],
       [method |-> "GET", path |-> <<"api", "admin", "products", ":id">>,
        gate |-> "isAdmin", handler |-> "getProductById"],
       [method |-> "PUT", path |-> <<"api", "admin", "products", ":id">>,
        gate |-> "isAdmin", handler |-> "updateProduct"],
       [method |-> "DELETE", path |-> <<"api", "admin", "products", ":id">>,
        gate |-> "isAdmin", handler |-> "deleteProduct"],
       [method |-> "GET", path |-> <<"api", "admin", "dashboard">>, gate |-> "isAdmin",
        handler |-> "adminDashboard"],
       [method |-> "GET", path |-> <<"api", "admin", "orders">>, gate |-> "isAdmin",
        handler |-> "adminOrders"] >>

\* the final middleware of the server entry: 404
NotFoundRoute == [method |-> "ANY", path |-> <<>>, gate |-> "none", handler |-> "notFound"]

\* the first registered route that matches, as express dispatches
Dispatch(method, path) ==
    LET hits == {i \in DOMAIN ApiRoutes :
                    ApiRoutes[i].method = method /\ SegmentsMatch(ApiRoutes[i].path, path)}
    IN  IF hits = {} THEN NotFoundRoute
        ELSE ApiRoutes[CHOOSE i \in hits : \A j \in hits : i <= j]

\* the value a client puts in place of a named segment
Concrete(path) ==
    [i \in DOMAIN path |-> IF path[i] \in PathParams THEN "p1" ELSE path[i]]

\* the requests clients send: every registered method and path, and one
\* path nothing is registered for
ClientRequests ==
    {[method |-> ApiRoutes[i].method, path |-> Concrete(ApiRoutes[i].path)] :
        i \in DOMAIN ApiRoutes}
        \cup {[method |-> "GET", path |-> <<"api", "nothing">>]}

\* one HTTP request through express: routing, the route's middleware, then
\* the handler
ApiRequest(method, path, authHeader) ==
    /\ Idle
    /\ LET route == Dispatch(method, path)
           outcome == Guarded(route.gate, authHeader)
       IN  /\ request' = [ op |-> "api", method |-> method, path |-> path,
                           authHeader |-> authHeader, handler |-> route.handler ]
           /\ response' =
                  IF route.handler = "notFound"
                  THEN [status |-> 404, handlerCalls |-> 0, user |-> NoToken]
                  ELSE outcome
    /\ UNCHANGED <<store, now, fixture>>

NextAuth ==
    \/ \E gate \in Gates \ {"none"}, authHeader \in AuthHeaders :
           MiddlewareRequest(gate, authHeader) /\ UNCHANGED <<loggerVars, adminVars>>
    \/ \E req \in ClientRequests, authHeader \in AuthHeaders :
           ApiRequest(req.method, req.path, authHeader) /\ UNCHANGED <<loggerVars, adminVars>>
    \/ ResponseSent /\ UNCHANGED <<loggerVars, adminVars>>

SpecAuth == InitStats /\ [][NextAuth]_vars

\* the bearer token of the request is present, well-formed, signed with the
\* server's secret and not expired
ValidToken(authHeader) ==
    /\ authHeader.scheme = "Bearer"
    /\ authHeader.token.kind = "jwt"
    /\ authHeader.token.signedWith = JwtSecret
    /\ ~authHeader.token.expired

\* C16: a request through isAdmin ends in exactly one of: 401 (token
\* missing, malformed, invalid or expired, whatever its role claim), 403
\* (valid token, role not admin), or one call of the downstream handler;
\* through isAuthenticated alone it ends in 401 or in one call of the
\* downstream handler.
C16_MiddlewareHasExactlyOneOutcome ==
    request.op = "middleware" =>
        LET header == request.authHeader
        IN  /\ ~ValidToken(header) =>
                   response.status = 401 /\ response.handlerCalls = 0
            /\ (ValidToken(header) /\ request.gate = "isAdmin"
                    /\ header.token.role # "admin") =>
                   response.status = 403 /\ response.handlerCalls = 0
            /\ (ValidToken(header)
                    /\ (request.gate = "isAuthenticated" \/ header.token.role = "admin")) =>
                   /\ response.handlerCalls = 1
                   /\ response.status \notin {401, 403}
                   /\ response.user = header.token

\* C16 witness: an expired token with the admin role was answered 401 by
\* isAdmin.
C16_Witness ==
    /\ request.op = "middleware"
    /\ request.gate = "isAdmin"
    /\ request.authHeader.scheme = "Bearer"
    /\ request.authHeader.token.expired
    /\ request.authHeader.token.signedWith = JwtSecret
    /\ request.authHeader.token.role = "admin"
    /\ response.status = 401

\* the requests the interface table marks as admin
AdminMarked ==
    { [method |-> "GET", path |-> <<"api", "logs", "events", "p1">>],
      [method |-> "GET", path |-> <<"api", "logs", "counts">>],
      [method |-> "GET", path |-> <<"api", "logs", "most-viewed">>],
      [method |-> "GET", path |-> <<"api", "logs", "funnel">>],
      [method |-> "GET", path |-> <<"api", "stats", "overview">>],
      [method |-> "GET", path |-> <<"api", "stats", "dashboard">>],
      [method |-> "GET", path |-> <<"api", "stats", "trends">>],
      [method |-> "POST", path |-> <<"api", "admin", "products">>],
      [method |-> "GET", path |-> <<"api", "admin", "products">>],
      [method |-> "GET", path |-> <<"api", "admin", "products", "p1">>],
      [method |-> "PUT", path |-> <<"api", "admin", "products", "p1">>],
      [method |-> "DELETE", path |-> <<"api", "admin", "products", "p1">>],
      [method |-> "POST", path |-> <<"api", "admin", "users", "register">>],
      [method |-> "PUT", path |-> <<"api", "admin", "users", "p1">>] }

\* C17: every route the interface table marks as admin answers 401 to a
\* request without a valid bearer token and 403 to a valid token whose role
\* is not admin, and does not run its handler in those cases.
C17_AdminRoutesRejectOthers ==
    (request.op = "api"
        /\ [method |-> request.method, path |-> request.path] \in AdminMarked) =>
        /\ ~ValidToken(request.authHeader) =>
               response.status = 401 /\ response.handlerCalls = 0
        /\ (ValidToken(request.authHeader) /\ request.authHeader.token.role # "admin") =>
               response.status = 403 /\ response.handlerCalls = 0

(***************************************************************************)
(* Admin accounts: userModel.js and userController.js                      *)
(***************************************************************************)
\* email values of request bodies; "A@x.com" differs from "a@x.com" in case
EmailInputs == {JsUndefined, "a@x.com", "A@x.com", "b@x.com"}

\* userSchema.email: lowercase: true, trim: true (mongoose applies the
\* setters to documents and to query conditions)
Lowercase(email) == IF email = "A@x.com" THEN "a@x.com" ELSE email

\* password values of request bodies; "abc" is shorter than minlength
PasswordInputs == {JsUndefined, "abc", "secret1", "secret2"}

\* userSchema.password.minlength
MinPasswordLength == 6

\* bcrypt.hash(password, salt): a 60-character string that is not the password
Hash(password) ==
    CASE password = "abc" -> "$2a$10$hash.of.abc"
      [] password = "secret1" -> "$2a$10$hash.of.secret1"
      [] password = "secret2" -> "$2a$10$hash.of.secret2"
      [] OTHER -> "$2a$10$hash.of.other"

Hashes == {Hash(password) : password \in PasswordInputs \ {JsUndefined}}

\* String.prototype.length of the values the password path can hold
StrLen(value) ==
    CASE value = "abc" -> 3
      [] value \in {"secret1", "secret2"} -> 7
      [] value \in Hashes -> 60
      [] OTHER -> 0

\* bcrypt.compare(candidatePassword, this.password); it rejects when the
\* candidate is not a string
CompareThrows(candidatePassword) == candidatePassword = JsUndefined

comparePasswordAlwaysTrue(candidatePassword, stored) == TRUE

comparePassword(candidatePassword, stored) == stored = Hash(candidatePassword)

\* the fields of userSchema.methods.toSafeObject
SafeFields == {"id", "name", "email", "role", "isActive", "createdAt", "updatedAt"}

toSafeObjectKeepsPassword(user) == user

toSafeObject(user) ==
    [ id |-> user.id, name |-> user.name, email |-> user.email, role |-> user.role,
      isActive |-> user.isActive, createdAt |-> user.createdAt,
      updatedAt |-> user.updatedAt ]

\* error.message of the exception a failed step throws: the kind of the
\* error and the values its text quotes
ErrorMessage(kind, quoted) == [kind |-> kind, quoted |-> quoted]

NoError == ErrorMessage("none", {})

\* the paths of doc that fail document.validate()
InvalidPaths(doc) ==
    {path \in {"name", "email", "password"} : ~Truthy(doc[path])}
        \cup (IF Truthy(doc.password) /\ StrLen(doc.password) < MinPasswordLength
              THEN {"password"} ELSE {})
        \cup (IF doc.role \notin Roles THEN {"role"} ELSE {})

\* the ValidationError of document.validate(): mongoose's message names
\* every failing path and quotes the rejected value of a path that is too
\* short or outside its enum
ValidationError(doc) ==
    IF InvalidPaths(doc) = {} THEN NoError
    ELSE ErrorMessage("ValidationError",
             (IF Truthy(doc.password) /\ StrLen(doc.password) < MinPasswordLength
              THEN {doc.password} ELSE {})
                 \cup (IF doc.role \notin Roles THEN {doc.role} ELSE {}))

\* User.findOne({ email }): the positions of the matching documents
findOne(email) == {i \in DOMAIN users : users[i].email = Lowercase(email)}

\* User.findById(id)
findById(id) == {i \in DOMAIN users : users[i].id = id}

\* the unique index on email rejects a second document with the same email
DuplicateKey(coll, doc, self) ==
    \E i \in DOMAIN coll : i # self /\ coll[i].email = doc.email

\* a pre-save hook without the isModified('password') test
PreSaveAlwaysHashes(doc, passwordModified) ==
    [doc EXCEPT !.password = Hash(doc.password), !.updatedAt = now]

\* pre('save'): the password is hashed only if it was modified
PreSave(doc, passwordModified) ==
    IF passwordModified
    THEN [doc EXCEPT !.password = Hash(doc.password), !.updatedAt = now]
    ELSE doc

\* the exception document.save() throws for doc at position self (0 for a
\* new document), or NoError
SaveError(doc, self, storeOk) ==
    IF ValidationError(doc) # NoError THEN ValidationError(doc)
    ELSE IF ~storeOk THEN ErrorMessage("MongoNetworkError", {})
    ELSE IF DuplicateKey(users, doc, self)
    THEN ErrorMessage("MongoError: E11000 duplicate key", {doc.email})
    ELSE NoError

\* the JSON body of a user endpoint's response
UserResponse(status, message, token, safeUsers, error) ==
    [ status |-> status, message |-> message, token |-> token, users |-> safeUsers,
      error |-> error ]

\* catch (error): res.status(500).json({ success: false, message, error: error.message })
UserServerError(message, error) == UserResponse(500, message, NoToken, <<>>, error)

\* req.body of POST /register
RegisterBodies ==
    [ name : {"n1"}, email : EmailInputs, password : PasswordInputs,
      role : {JsUndefined, "admin", "root"} ]

\* new User({ name, email, password, role: role || 'user' })
NewUser(body) ==
    [ id |-> Len(users) + 1, name |-> body.name, email |-> Lowercase(body.email),
      password |-> body.password, role |-> JsOr(body.role, "user"), isActive |-> TRUE,
      createdAt |-> now, updatedAt |-> now ]

EmailInUse == UserResponse(400, "Este email ja esta em uso", NoToken, <<>>, NoError)

\* register from `await user.save()` on: the collection and the response
registerSave(body, storeOk) ==
    LET user == NewUser(body)
        error == SaveError(user, 0, storeOk)
        saved == PreSave(user, TRUE)
    IN  IF error # NoError
        THEN [users |-> users, response |-> UserServerError("Erro ao registrar usuario", error)]
        ELSE [ users |-> Append(users, saved),
               response |-> UserResponse(201, "Usuario registrado com sucesso", NoToken,
                                         <<toSafeObject(saved)>>, NoError) ]

\* POST /register, first part: `await User.findOne({ email })`; the request
\* is answered 400 or goes on to build and save the document
RegisterFind(body, storeOk) ==
    /\ Idle
    /\ IF ~storeOk
       THEN /\ request' = [ op |-> "register", body |-> body, stage |-> "findOne",
                             storeOk |-> FALSE ]
            /\ response' = UserServerError("Erro ao registrar usuario",
                                           ErrorMessage("MongoNetworkError", {}))
            /\ UNCHANGED pending
       ELSE IF findOne(body.email) # {}
       THEN /\ request' = [ op |-> "register", body |-> body, stage |-> "findOne",
                             storeOk |-> TRUE ]
            /\ response' = EmailInUse
            /\ UNCHANGED pending
       ELSE /\ Cardinality(pending) < MaxPending
            /\ pending' = pending \cup {body}
            /\ UNCHANGED <<request, response>>
    /\ UNCHANGED <<store, now, fixture, users>>

\* POST /register, second part: `await user.save()` and the response
RegisterSave(body, storeOk) ==
    /\ Idle
    /\ body \in pending
    /\ Len(users) < MaxUsers
    /\ pending' = pending \ {body}
    /\ LET result == registerSave(body, storeOk)
       IN  /\ users' = result.users
           /\ response' = result.response
    /\ request' = [op |-> "register", body |-> body, stage |-> "save", storeOk |-> storeOk]
    /\ UNCHANGED <<store, now, fixture>>

\* POST /register with no other request between its findOne and its save
RegisterRequest(body, storeOk) ==
    /\ Idle
    /\ Len(users) < MaxUsers
    /\ LET found == findOne(body.email) # {}
           result == registerSave(body, storeOk)
       IN  /\ request' = [ op |-> "register", body |-> body,
                           stage |-> IF found \/ ~storeOk THEN "findOne" ELSE "save",
                           storeOk |-> storeOk ]
           /\ users' = IF found \/ ~storeOk THEN users ELSE result.users
           /\ response' =
                  IF ~storeOk
                  THEN UserServerError("Erro ao registrar usuario",
                                       ErrorMessage("MongoNetworkError", {}))
                  ELSE IF found THEN EmailInUse ELSE result.response
    /\ UNCHANGED <<store, now, fixture, pending>>

\* jwt.sign({ id, name, email, role }, secret, { expiresIn: '24h' })
SignedToken(user) ==
    [ kind |-> "jwt", signedWith |-> JwtSecret, expired |-> FALSE, role |-> user.role,
      id |-> user.id, name |-> user.name, email |-> user.email ]

InvalidCredentials == UserResponse(401, "Email ou senha invalidos", NoToken, <<>>, NoError)

AccountDeactivated ==
    UserResponse(401, "Conta desativada. Entre em contato com o administrador.", NoToken,
                 <<>>, NoError)

StoreDown == ErrorMessage("MongoNetworkError", {})

\* if (!user.isActive) of login
IsActiveIgnored(user) == TRUE

IsActive(user) == user.isActive

\* req.body of POST /login
LoginBodies == [email : EmailInputs, password : PasswordInputs]

\* userController.login: the response
userController_login(body, storeOk) ==
    IF ~storeOk THEN UserServerError("Erro ao fazer login", StoreDown)
    ELSE IF findOne(body.email) = {} THEN InvalidCredentials
    ELSE LET user == users[CHOOSE i \in findOne(body.email) : TRUE]
         IN  IF ~IsActive(user) THEN AccountDeactivated
             ELSE IF CompareThrows(body.password)
             THEN UserServerError("Erro ao fazer login",
                                  ErrorMessage("Error: Illegal arguments", {"undefined", "string"}))
             ELSE IF ~comparePassword(body.password, user.password) THEN InvalidCredentials
             ELSE UserResponse(200, "Login realizado com sucesso", SignedToken(user),
                               <<toSafeObject(user)>>, NoError)

\* POST /login
LoginRequest(body, storeOk) ==
    /\ Idle
    /\ request' = [op |-> "login", body |-> body, storeOk |-> storeOk]
    /\ response' = userController_login(body, storeOk)
    /\ UNCHANGED <<store, now, fixture, users, pending>>

\* req.user.id and req.params.id: the ids of the accounts and one of no account
UserIds == 1..MaxUsers

UserNotFound == UserResponse(404, "Usuario nao encontrado", NoToken, <<>>, NoError)

\* GET /profile: userController.getProfile, req.user set by isAuthenticated
GetProfileRequest(userId, storeOk) ==
    /\ Idle
    /\ request' = [op |-> "getProfile", userId |-> userId, storeOk |-> storeOk]
    /\ response' =
           IF ~storeOk THEN UserServerError("Erro ao buscar perfil", StoreDown)
           ELSE IF findById(userId) = {} THEN UserNotFound
           ELSE UserResponse(200, "", NoToken,
                             <<toSafeObject(users[CHOOSE i \in findById(userId) : TRUE])>>,
                             NoError)
    /\ UNCHANGED <<store, now, fixture, users, pending>>

\* GET /: userController.getAllUsers
GetAllUsersRequest(storeOk) ==
    /\ Idle
    /\ request' = [op |-> "getAllUsers", storeOk |-> storeOk]
    /\ response' =
           IF ~storeOk THEN UserServerError("Erro ao listar usuarios", StoreDown)
           ELSE UserResponse(200, "", NoToken,
                             [i \in DOMAIN users |-> toSafeObject(users[i])], NoError)
    /\ UNCHANGED <<store, now, fixture, users, pending>>

\* req.body of PUT /:id; isActive is a JSON boolean or absent
UpdateBodies ==
    [ name : {JsUndefined, "n2"}, email : {JsUndefined, "A@x.com", "b@x.com"},
      role : {JsUndefined, "admin", "root"}, isActive : {JsUndefined, "true", "false"} ]

\* the four conditional assignments of updateUser
Updated(user, body) ==
    [ user EXCEPT
        !.name = IF Truthy(body.name) THEN body.name ELSE @,
        !.email = IF Truthy(body.email) THEN Lowercase(body.email) ELSE @,
        !.role = IF Truthy(body.role) THEN body.role ELSE @,
        !.isActive = IF body.isActive # JsUndefined THEN body.isActive = "true" ELSE @ ]

\* PUT /:id: userController.updateUser
UpdateUserRequest(id, body, storeOk) ==
    /\ Idle
    /\ request' = [op |-> "updateUser", id |-> id, body |-> body, storeOk |-> storeOk]
    /\ IF ~storeOk
       THEN /\ response' = UserServerError("Erro ao atualizar usuario", StoreDown)
            /\ UNCHANGED users
       ELSE IF findById(id) = {}
       THEN /\ response' = UserNotFound
            /\ UNCHANGED users
       ELSE LET i == CHOOSE k \in findById(id) : TRUE
                user == Updated(users[i], body)
                error == SaveError(user, i, storeOk)
            IN  IF error # NoError
                THEN /\ response' = UserServerError("Erro ao atualizar usuario", error)
                     /\ UNCHANGED users
                ELSE /\ users' = [users EXCEPT ![i] = PreSave(user, FALSE)]
                     /\ response' = UserResponse(200, "Usuario atualizado com sucesso", NoToken,
                                                 <<toSafeObject(PreSave(user, FALSE))>>, NoError)
    /\ UNCHANGED <<store, now, fixture, pending>>

\* req.body of POST /change-password
ChangePasswordBodies == [currentPassword : PasswordInputs, newPassword : PasswordInputs]

WrongCurrentPassword == UserResponse(401, "Senha atual incorreta", NoToken, <<>>, NoError)

\* POST /change-password: userController.changePassword, req.user set by
\* isAuthenticated
ChangePasswordRequest(userId, body, storeOk) ==
    /\ Idle
    /\ request' = [ op |-> "changePassword", userId |-> userId, body |-> body,
                    storeOk |-> storeOk ]
    /\ IF ~storeOk
       THEN /\ response' = UserServerError("Erro ao alterar senha", StoreDown)
            /\ UNCHANGED users
       ELSE IF findById(userId) = {}
       THEN /\ response' = UserNotFound
            /\ UNCHANGED users
       ELSE LET i == CHOOSE k \in findById(userId) : TRUE
                user == [users[i] EXCEPT !.password = body.newPassword]
                error == SaveError(user, i, storeOk)
            IN  IF CompareThrows(body.currentPassword)
                THEN /\ response' =
                            UserServerError("Erro ao alterar senha",
                                ErrorMessage("Error: Illegal arguments", {"undefined", "string"}))
                     /\ UNCHANGED users
                ELSE IF ~comparePassword(body.currentPassword, users[i].password)
                THEN /\ response' = WrongCurrentPassword
                     /\ UNCHANGED users
                ELSE IF error # NoError
                THEN /\ response' = UserServerError("Erro ao alterar senha", error)
                     /\ UNCHANGED users
                ELSE /\ users' = [users EXCEPT ![i] = PreSave(user, TRUE)]
                     /\ response' = UserResponse(200, "Senha alterada com sucesso", NoToken,
                                                 <<>>, NoError)
    /\ UNCHANGED <<store, now, fixture, pending>>

NextUsers ==
    \/ \E body \in RegisterBodies, storeOk \in BOOLEAN :
           RegisterRequest(body, storeOk) /\ UNCHANGED <<loggerVars, shopVars>>
    \/ \E body \in LoginBodies, storeOk \in BOOLEAN :
           LoginRequest(body, storeOk) /\ UNCHANGED <<loggerVars, shopVars>>
    \/ \E userId \in UserIds, storeOk \in BOOLEAN :
           GetProfileRequest(userId, storeOk) /\ UNCHANGED <<loggerVars, shopVars>>
    \/ \E storeOk \in BOOLEAN : GetAllUsersRequest(storeOk) /\ UNCHANGED <<loggerVars, shopVars>>
    \/ \E id \in UserIds, body \in UpdateBodies, storeOk \in BOOLEAN :
           UpdateUserRequest(id, body, storeOk) /\ UNCHANGED <<loggerVars, shopVars>>
    \/ \E userId \in UserIds, body \in ChangePasswordBodies, storeOk \in BOOLEAN :
           ChangePasswordRequest(userId, body, storeOk) /\ UNCHANGED <<loggerVars, shopVars>>
    \/ ResponseSent /\ UNCHANGED <<loggerVars, adminVars>>

SpecUsers == InitStats /\ [][NextUsers]_vars

\* the browser keeps the token of a successful login
LoginSession(body, storeOk) ==
    /\ LoginRequest(body, storeOk)
    /\ sessions' = IF response'.status = 200
                   THEN sessions \cup {response'.token}
                   ELSE sessions
    /\ Cardinality(sessions') <= MaxSessions

\* twenty-four hours after jwt.sign (expiresIn: '24h') the exp claim of the
\* token lies in the past
TokenExpires(token) ==
    /\ token \in sessions
    /\ ~token.expired
    /\ sessions' = (sessions \ {token}) \cup {[token EXCEPT !.expired = TRUE]}
    /\ UNCHANGED <<backendVars, users, pending>>

SessionRegisterBodies ==
    [name : {"n1"}, email : {"a@x.com"}, password : {"secret1"}, role : {JsUndefined, "admin"}]

SessionLoginBodies == [email : {"a@x.com"}, password : {"secret1", "secret2"}]

SessionUpdateBodies ==
    [ name : {JsUndefined}, email : {JsUndefined}, role : {JsUndefined, "admin", "user"},
      isActive : {JsUndefined, "true", "false"} ]

SessionPasswordBodies == [currentPassword : {"secret1"}, newPassword : {"secret2"}]

\* accounts are registered, log in, are updated and change their password
\* while the tokens issued to them are presented to the two middlewares
NextSessions ==
    \/ \E body \in SessionRegisterBodies :
           RegisterRequest(body, TRUE) /\ UNCHANGED <<loggerVars, shopVars>>
    \/ \E body \in SessionLoginBodies, storeOk \in BOOLEAN :
           LoginSession(body, storeOk) /\ UNCHANGED <<loggerVars, products, updates, panel>>
    \/ \E id \in UserIds, body \in SessionUpdateBodies :
           UpdateUserRequest(id, body, TRUE) /\ UNCHANGED <<loggerVars, shopVars>>
    \/ \E userId \in UserIds, body \in SessionPasswordBodies :
           ChangePasswordRequest(userId, body, TRUE) /\ UNCHANGED <<loggerVars, shopVars>>
    \/ \E token \in sessions, gate \in {"isAuthenticated", "isAdmin"} :
           MiddlewareRequest(gate, [scheme |-> "Bearer", token |-> token])
               /\ UNCHANGED <<loggerVars, adminVars>>
    \/ \E token \in sessions :
           TokenExpires(token) /\ UNCHANGED <<loggerVars, products, updates, panel>>
    \/ ResponseSent /\ UNCHANGED <<loggerVars, adminVars>>

SpecSessions == InitStats /\ [][NextSessions]_vars

(***************************************************************************)
(* Properties of the user endpoints                                        *)
(***************************************************************************)
\* the accounts the email of the login request belongs to
AccountsOf(email) == {i \in DOMAIN users : users[i].email = Lowercase(email)}

\* the password of the request is the password of the account of its email
PasswordIsRight(body) ==
    \E i \in AccountsOf(body.email) : users[i].password = Hash(body.password)

\* C14: a login attempt with a wrong password is answered 401 with the same
\* generic invalid-credentials message for every email: of no account, of
\* an active account, of a deactivated account.
C14_WrongPasswordAnswerIsTheSameForEveryEmail ==
    ( /\ request.op = "login"
      /\ request.storeOk
      /\ request.body.password # JsUndefined
      /\ ~PasswordIsRight(request.body) ) =>
        response = InvalidCredentials

UserOps == {"register", "login", "getProfile", "getAllUsers", "updateUser", "changePassword"}

\* the stored hashes and the passwords they are the hashes of
StoredSecrets ==
    {users[i].password : i \in DOMAIN users}
        \cup {password \in PasswordInputs : \E i \in DOMAIN users :
                  users[i].password = Hash(password)}

\* every string a response carries outside the fixed message
ResponseStrings ==
    response.error.quoted
        \cup UNION {{response.users[k].name, response.users[k].email, response.users[k].role} :
                       k \in DOMAIN response.users}
        \cup (IF response.token = NoToken THEN {}
              ELSE {response.token.name, response.token.email, response.token.role})

\* C19: no response of a user endpoint, successful or not, contains the
\* password of an account or its hash: user data is sent only as the safe
\* projection {id, name, email, role, isActive, createdAt, updatedAt}.
C19_ResponsesCarryNoPassword ==
    request.op \in UserOps =>
        /\ \A k \in DOMAIN response.users : DOMAIN response.users[k] = SafeFields
        /\ DOMAIN response.token \cap {"password"} = {}
        /\ ResponseStrings \cap StoredSecrets = {}

\* C19 witness: the list of users was answered with two accounts.
C19_Witness ==
    /\ request.op = "getAllUsers"
    /\ response.status = 200
    /\ Len(response.users) = 2

\* this step answers a change-password request of the account at position i
ChangePasswordStep(i) ==
    /\ Idle
    /\ request'.op = "changePassword"
    /\ i \in DOMAIN users
    /\ users[i].id = request'.userId

\* the status a login with the email of account i and this password gets
LoginStatus(i, password) ==
    userController_login([email |-> users[i].email, password |-> password], TRUE).status

C25_TokenPassesUntilExpiry ==
    request.op = "middleware" =>
        LET token == request.authHeader.token
        IN  /\ request.gate = "isAuthenticated"
                   => (response.handlerCalls = 1 <=> ~token.expired)
            /\ request.gate = "isAdmin"
                   => (response.handlerCalls = 1 <=> ~token.expired /\ token.role = "admin")
            /\ response.handlerCalls = 1 => response.user = token

\* C25 witness: a token passes isAdmin although its account has since been
\* deactivated, lost the admin role and changed its password.
C25_Witness ==
    /\ request.op = "middleware"
    /\ request.gate = "isAdmin"
    /\ response.handlerCalls = 1
    /\ \E i \in DOMAIN users :
           /\ users[i].id = request.authHeader.token.id
           /\ ~users[i].isActive
           /\ users[i].role = "user"
           /\ users[i].password = Hash("secret2")

\* C29: the stored password hash changes only through register and a
\* successful changePassword. An account appears only with a register
\* request, an account's hash differs after a step only if the step is a
\* changePassword answered 200, and after updateUser every account's hash is
\* what it was, so the password that logged in before still logs in.
C29_HashChangesOnlyByRegisterAndChangePassword ==
    [][/\ Len(users') >= Len(users)
       /\ Len(users') > Len(users) => request'.op = "register"
       /\ \A i \in DOMAIN users :
              /\ users'[i].password # users[i].password
                     => request'.op = "changePassword" /\ response'.status = 200
              /\ request'.op = "updateUser"
                     => \A password \in PasswordInputs \ {JsUndefined} :
                            comparePassword(password, users'[i].password)
                                <=> comparePassword(password, users[i].password)]_vars

\* C29 witness: updateUser has changed an account's email, role and
\* activity, and the password it was registered with still matches.
C29_Witness ==
    /\ request.op = "updateUser"
    /\ response.status = 200
    /\ request.body.email = "b@x.com"
    /\ request.body.role = "admin"
    /\ request.body.isActive = "false"
    /\ \E i \in findById(request.id) :
           /\ users[i].email = "b@x.com"
           /\ comparePassword("secret1", users[i].password)

\* the register requests of the interleaving runs
RaceBodies ==
    {body \in RegisterBodies :
        /\ body.email # JsUndefined
        /\ body.password \in {"abc", "secret1"}
        /\ body.role = JsUndefined}

NextRegister ==
    \/ \E body \in RaceBodies, storeOk \in BOOLEAN :
           RegisterFind(body, storeOk) /\ UNCHANGED <<loggerVars, shopVars>>
    \/ \E body \in RaceBodies, storeOk \in BOOLEAN :
           RegisterSave(body, storeOk) /\ UNCHANGED <<loggerVars, shopVars>>
    \/ ResponseSent /\ UNCHANGED <<loggerVars, adminVars>>

SpecRegister == InitStats /\ [][NextRegister]_vars

\* no two accounts have the same email
EmailsAreUnique ==
    \A i, j \in DOMAIN users : users[i].email = users[j].email => i = j

\* the stored emails
EmailsInUse == {users[i].email : i \in DOMAIN users}

\* this step answers a register request
RegisterAnswered == request'.op = "register" /\ request' # request

\* C18: after any interleaving of register requests at most one account
\* exists per email, and a register request for an email that already
\* belongs to an account is answered 400 and creates no account (stated for
\* well-formed requests the store answers).
C18_AtMostOneAccountPerEmail ==
    /\ [](EmailsAreUnique)
    /\ [][(RegisterAnswered /\ request'.storeOk
               /\ ValidationError(NewUser(request'.body)) = NoError
               /\ Lowercase(request'.body.email) \in EmailsInUse) =>
              /\ users' = users
              /\ response'.status = 400]_vars

(***************************************************************************)
(* Product catalogue: productController and productModel                   *)
(***************************************************************************)

\* req.files as multer stores them: the generated file names, in upload order
UploadedFiles == {<<>>, <<"a.png">>, <<"a.png", "b.png">>}

\* files.map(file => `/uploads/products/${file.filename}`)
newImages(files) == [i \in DOMAIN files |-> "/uploads/products/" \o files[i]]

\* multer's filename callback gives every upload a name of its own: none
\* of the files is among the stored images or the uploads of a request
\* that is being handled
FreshFiles(files) ==
    \A k \in DOMAIN files :
        /\ \A i \in DOMAIN products : \A j \in DOMAIN products[i].images :
               products[i].images[j] # newImages(files)[k]
        /\ \A update \in updates :
               update.kind = "product"
                   => \A j \in DOMAIN update.files : update.files[j] # files[k]

\* parseFloat of the price values requests carry
ParseFloat(value) ==
    CASE value = "10" -> 10
      [] value = "25" -> 25
      [] OTHER -> 0

\* mongoose's cast of the averageRating values requests carry, in tenths
CastTenths(value) ==
    CASE value = "3" -> 30
      [] OTHER -> 0

RECURSIVE SumOfRatings(_)
SumOfRatings(ratings) ==
    IF ratings = <<>> THEN 0 ELSE Head(ratings).rating + SumOfRatings(Tail(ratings))

\* the second pre('save') hook of productSchema: the mean of the ratings,
\* parseFloat(toFixed(1)), in tenths; 0 without ratings
DerivedAverageRating(doc) ==
    IF Len(doc.ratings) > 0
    THEN Round(SumOfRatings(doc.ratings) * 10, Len(doc.ratings))
    ELSE 0

\* the two pre('save') hooks of productSchema
PreSaveProduct(doc) ==
    [doc EXCEPT !.updatedAt = now, !.averageRating = DerivedAverageRating(doc)]

\* the paths of productSchema a $set can write; mongoose drops the others
ProductPaths ==
    {"name", "description", "price", "category", "images", "ratings", "averageRating"}

\* Product.findById
findProductById(id) == {i \in DOMAIN products : products[i].id = id}

\* an _id no stored product has
NewProductId ==
    CHOOSE n \in 1..(Len(products) + 1) : \A i \in DOMAIN products : products[i].id # n

\* the JSON body of a product endpoint's response; product holds the
\* document, or nothing where the code sends none or null
ProductResponse(status, message, product) ==
    [status |-> status, success |-> status < 400, message |-> message, product |-> product]

ProductNotFound == ProductResponse(404, "Produto nao encontrado", <<>>)

\* req.body of POST /api/admin/products
CreateBodies ==
    [name : {JsUndefined, "shoe"}, description : {"d"}, price : {"10"}, category : {"c"}]

\* new Product({...}) of createProduct: ratings and averageRating take the
\* schema defaults
NewProduct(body, files) ==
    [ id |-> NewProductId, name |-> body.name, description |-> body.description,
      price |-> ParseFloat(body.price), category |-> body.category,
      images |-> newImages(files), ratings |-> <<>>, averageRating |-> 0,
      createdAt |-> now, updatedAt |-> now ]

\* POST /api/admin/products: productController.createProduct
CreateProductRequest(body, files, storeOk) ==
    /\ Idle
    /\ FreshFiles(files)
    /\ request' = [op |-> "createProduct", body |-> body, files |-> files,
                   storeOk |-> storeOk]
    /\ IF ~Truthy(body.name) \/ ~Truthy(body.description) \/ ~Truthy(body.price)
              \/ ~Truthy(body.category)
       THEN /\ response' = ProductResponse(400, "Campos obrigatorios nao fornecidos", <<>>)
            /\ UNCHANGED products
       ELSE IF ~storeOk
       THEN /\ response' = ProductResponse(500, "Erro ao criar produto", <<>>)
            /\ UNCHANGED products
       ELSE /\ Len(products) < MaxProducts
            /\ products' = Append(products, PreSaveProduct(NewProduct(body, files)))
            /\ response' = ProductResponse(201, "Produto criado com sucesso",
                                           <<PreSaveProduct(NewProduct(body, files))>>)
    /\ UNCHANGED <<store, now, fixture, users, pending, sessions, updates, panel>>

\* updateData of updateProduct after its processing: req.body with images
\* from the uploaded files (after the images read by findById when
\* keepImages is true) and the numeric fields converted
updateData(body, files, product) ==
    LET keepImages == Field(body, "keepImages") = "true"
        paths == DOMAIN body \cup (IF Len(files) > 0 THEN {"images"} ELSE {})
    IN  [ f \in paths |->
            IF f = "images" /\ Len(files) > 0
            THEN IF keepImages THEN product.images \o newImages(files) ELSE newImages(files)
            ELSE IF f = "price" THEN ParseFloat(body[f])
            ELSE IF f = "averageRating" THEN CastTenths(body[f])
            ELSE body[f] ]

\* the document after { $set: updateData }
SetPaths(doc, data) ==
    [f \in DOMAIN doc |-> IF f \in DOMAIN data \cap ProductPaths THEN data[f] ELSE doc[f]]

\* Product.findByIdAndUpdate(id, { $set: updateData }, { new: true }): the
\* collection afterwards; no save hook runs
findByIdAndUpdate(id, data) ==
    [i \in DOMAIN products |->
        IF products[i].id = id THEN SetPaths(products[i], data) ELSE products[i]]

\* the response of updateProduct after its update
UpdateProductAnswer(id, data, storeOk) ==
    IF ~storeOk
    THEN ProductResponse(500, "Erro ao atualizar produto", <<>>)
    ELSE ProductResponse(200, "Produto atualizado com sucesso",
                         SelectSeq(findByIdAndUpdate(id, data), LAMBDA doc : doc.id = id))

\* every field a PUT can carry, with one value each
ProductFields ==
    [ name |-> "boot", price |-> "25", keepImages |-> "true",
      images |-> <<"/uploads/products/x.png">>,
      ratings |-> << [rating |-> 4], [rating |-> 5] >>, averageRating |-> "3" ]

\* req.body of PUT /api/admin/products/:id: any of the fields
ProductUpdateBodies ==
    {[f \in paths |-> ProductFields[f]] : paths \in SUBSET DOMAIN ProductFields}

ProductIds == 1..MaxProducts

\* PUT /api/admin/products/:id with no other request between its findById
\* and its findByIdAndUpdate: productController.updateProduct
UpdateProductRequest(id, body, files, storeOk) ==
    /\ Idle
    /\ FreshFiles(files)
    /\ request' = [op |-> "updateProduct", id |-> id, body |-> body, files |-> files,
                   storeOk |-> storeOk, stage |-> "update"]
    /\ IF ~storeOk
       THEN /\ response' = ProductResponse(500, "Erro ao atualizar produto", <<>>)
            /\ UNCHANGED products
       ELSE IF findProductById(id) = {}
       THEN /\ response' = ProductNotFound
            /\ UNCHANGED products
       ELSE LET product == products[CHOOSE i \in findProductById(id) : TRUE]
                data == updateData(body, files, product)
            IN  /\ products' = findByIdAndUpdate(id, data)
                /\ \A i \in DOMAIN products' : Len(products'[i].images) <= MaxImages
                /\ response' = UpdateProductAnswer(id, data, TRUE)
    /\ UNCHANGED <<store, now, fixture, users, pending, sessions, updates, panel>>

\* DELETE /api/admin/products/:id: productController.deleteProduct
DeleteProductRequest(id, storeOk) ==
    /\ Idle
    /\ request' = [op |-> "deleteProduct", id |-> id, storeOk |-> storeOk]
    /\ IF ~storeOk
       THEN /\ response' = ProductResponse(500, "Erro ao excluir produto", <<>>)
            /\ UNCHANGED products
       ELSE IF findProductById(id) = {}
       THEN /\ response' = ProductNotFound
            /\ UNCHANGED products
       ELSE /\ products' = SelectSeq(products, LAMBDA doc : doc.id # id)
            /\ response' = ProductResponse(200, "Produto excluido com sucesso", <<>>)
    /\ UNCHANGED <<store, now, fixture, users, pending, sessions, updates, panel>>

NextProducts ==
    \/ \E body \in CreateBodies, files \in UploadedFiles, storeOk \in BOOLEAN :
           CreateProductRequest(body, files, storeOk) /\ UNCHANGED loggerVars
    \/ \E id \in ProductIds, body \in ProductUpdateBodies, files \in UploadedFiles,
          storeOk \in BOOLEAN :
           UpdateProductRequest(id, body, files, storeOk) /\ UNCHANGED loggerVars
    \/ \E id \in ProductIds, storeOk \in BOOLEAN :
           DeleteProductRequest(id, storeOk) /\ UNCHANGED loggerVars
    \/ ResponseSent /\ UNCHANGED <<loggerVars, adminVars>>

SpecProducts == InitStats /\ [][NextProducts]_vars

\* C24: every stored product's averageRating is the mean of its ratings
\* rounded to one decimal, or 0 when it has no ratings, after any sequence
\* of product requests.
C24_AverageRatingIsDerivedFromRatings ==
    \A i \in DOMAIN products :
        products[i].averageRating = DerivedAverageRating(products[i])

(***************************************************************************)
(* Concurrent updates of one document                                      *)
(***************************************************************************)

\* PUT /api/admin/products/:id, first part: `await Product.findById(id)`
\* and the processing of req.body with the images that were read
UpdateProductFind(id, body, files, storeOk) ==
    /\ Idle
    /\ FreshFiles(files)
    /\ IF ~storeOk
       THEN /\ request' = [op |-> "updateProduct", id |-> id, body |-> body,
                           files |-> files, storeOk |-> FALSE, stage |-> "findById"]
            /\ response' = ProductResponse(500, "Erro ao atualizar produto", <<>>)
            /\ UNCHANGED updates
       ELSE IF findProductById(id) = {}
       THEN /\ request' = [op |-> "updateProduct", id |-> id, body |-> body,
                           files |-> files, storeOk |-> TRUE, stage |-> "findById"]
            /\ response' = ProductNotFound
            /\ UNCHANGED updates
       ELSE LET product == products[CHOOSE i \in findProductById(id) : TRUE]
            IN  /\ Cardinality(updates) < MaxPending
                /\ updates' = updates \cup
                       {[ kind |-> "product", id |-> id, body |-> body, files |-> files,
                          read |-> product, data |-> updateData(body, files, product) ]}
                /\ UNCHANGED <<request, response>>
    /\ UNCHANGED <<store, now, fixture, users, pending, sessions, products, panel>>

\* PUT /api/admin/products/:id, second part: `await
\* Product.findByIdAndUpdate(...)` and the response
UpdateProductWrite(update, storeOk) ==
    /\ Idle
    /\ update \in updates
    /\ update.kind = "product"
    /\ updates' = updates \ {update}
    /\ request' = [op |-> "updateProduct", id |-> update.id, body |-> update.body,
                   files |-> update.files, storeOk |-> storeOk, stage |-> "update"]
    /\ IF storeOk
       THEN /\ products' = findByIdAndUpdate(update.id, update.data)
            /\ \A i \in DOMAIN products' : Len(products'[i].images) <= MaxImages
       ELSE UNCHANGED products
    /\ response' = UpdateProductAnswer(update.id, update.data, storeOk)
    /\ UNCHANGED <<store, now, fixture, users, pending, sessions, panel>>

\* PUT /api/admin/users/:id, first part: `await User.findById(id)`
UpdateUserFind(id, body, storeOk) ==
    /\ Idle
    /\ IF ~storeOk
       THEN /\ request' = [op |-> "updateUser", id |-> id, body |-> body,
                           storeOk |-> FALSE, stage |-> "findById"]
            /\ response' = UserServerError("Erro ao atualizar usuario", StoreDown)
            /\ UNCHANGED updates
       ELSE IF findById(id) = {}
       THEN /\ request' = [op |-> "updateUser", id |-> id, body |-> body,
                           storeOk |-> TRUE, stage |-> "findById"]
            /\ response' = UserNotFound
            /\ UNCHANGED updates
       ELSE /\ Cardinality(updates) < MaxPending
            /\ updates' = updates \cup
                   {[ kind |-> "user", id |-> id, body |-> body,
                      read |-> users[CHOOSE i \in findById(id) : TRUE] ]}
            /\ UNCHANGED <<request, response>>
    /\ UNCHANGED <<store, now, fixture, users, pending, sessions, products, panel>>

\* the paths of a document mongoose has marked modified: those assigned a
\* value that differs from the one the document was loaded with
ModifiedPaths(doc, loaded) == {f \in DOMAIN doc : doc[f] # loaded[f]}

\* document.save() of a loaded document: $set of the modified paths on the
\* stored document
SaveModified(stored, doc, loaded) ==
    [f \in DOMAIN stored |-> IF f \in ModifiedPaths(doc, loaded) THEN doc[f] ELSE stored[f]]

\* PUT /api/admin/users/:id, second part: the assignments to the loaded
\* document, `await user.save()` and the response
UpdateUserSave(update, storeOk) ==
    /\ Idle
    /\ update \in updates
    /\ update.kind = "user"
    /\ updates' = updates \ {update}
    /\ request' = [op |-> "updateUser", id |-> update.id, body |-> update.body,
                   storeOk |-> storeOk, stage |-> "save"]
    /\ LET i == CHOOSE k \in findById(update.id) : TRUE
           user == PreSave(Updated(update.read, update.body), FALSE)
           error == SaveError(user, i, storeOk)
       IN  IF error # NoError
           THEN /\ response' = UserServerError("Erro ao atualizar usuario", error)
                /\ UNCHANGED users
           ELSE /\ users' = [users EXCEPT ![i] = SaveModified(@, user, update.read)]
                /\ response' = UserResponse(200, "Usuario atualizado com sucesso", NoToken,
                                            <<toSafeObject(user)>>, NoError)
    /\ UNCHANGED <<store, now, fixture, pending, sessions, products, panel>>

\* the form fields the route documents, of which the race needs two
RaceProductBodies ==
    {[f \in paths |-> ProductFields[f]] : paths \in SUBSET {"name", "keepImages"}}

RaceFiles == {<<>>, <<"a.png", "b.png">>, <<"c.png">>}

RaceUserBodies ==
    [ name : {JsUndefined, "n1", "n2"}, email : {JsUndefined},
      role : {JsUndefined, "admin"}, isActive : {JsUndefined, "false"} ]

\* one product, and update requests on it whose reads and writes
\* interleave
NextProductRace ==
    \/ \E body \in CreateBodies :
           CreateProductRequest(body, <<>>, TRUE) /\ UNCHANGED loggerVars
    \/ \E id \in ProductIds, body \in RaceProductBodies, files \in RaceFiles,
          storeOk \in BOOLEAN :
           UpdateProductFind(id, body, files, storeOk) /\ UNCHANGED loggerVars
    \/ \E update \in updates, storeOk \in BOOLEAN :
           UpdateProductWrite(update, storeOk) /\ UNCHANGED loggerVars
    \/ ResponseSent /\ UNCHANGED <<loggerVars, adminVars>>

SpecProductRace == InitStats /\ [][NextProductRace]_vars

\* one account, and update requests on it whose reads and saves interleave
NextUserRace ==
    \/ RegisterRequest([name |-> "n1", email |-> "a@x.com", password |-> "secret1",
                        role |-> JsUndefined], TRUE)
           /\ UNCHANGED <<loggerVars, shopVars>>
    \/ \E id \in UserIds, body \in RaceUserBodies, storeOk \in BOOLEAN :
           UpdateUserFind(id, body, storeOk) /\ UNCHANGED loggerVars
    \/ \E update \in updates, storeOk \in BOOLEAN :
           UpdateUserSave(update, storeOk) /\ UNCHANGED loggerVars
    \/ ResponseSent /\ UNCHANGED <<loggerVars, adminVars>>

SpecUserRace == InitStats /\ [][NextUserRace]_vars

\* C21: an update of a product that is answered 200 leaves the images equal
\* to the images the product had immediately before the update followed by
\* the new paths in upload order when files are uploaded and keepImages is
\* true, equal to the new paths when files are uploaded and keepImages is
\* not true, and as they were when no file is uploaded.
C21_UpdateProductImages ==
    [][(/\ Idle
        /\ request'.op = "updateProduct"
        /\ request'.stage = "update"
        /\ response'.status = 200
        /\ findProductById(request'.id) # {})
           => LET i == CHOOSE k \in findProductById(request'.id) : TRUE
                  files == request'.files
                  keepImages == Field(request'.body, "keepImages") = "true"
              IN  /\ (Len(files) > 0 /\ keepImages)
                         => products'[i].images = products[i].images \o newImages(files)
                  /\ (Len(files) > 0 /\ ~keepImages)
                         => products'[i].images = newImages(files)
                  /\ Len(files) = 0 => products'[i].images = products[i].images]_vars

\* another request has written the document between the findById of this
\* update and its write
Overlapped(update) ==
    IF update.kind = "product"
    THEN \E i \in findProductById(update.id) : products[i] # update.read
    ELSE \E i \in findById(update.id) : users[i] # update.read

\* the document holds every value the update's request sets
HoldsValuesOf(update, productsAfter, usersAfter) ==
    IF update.kind = "product"
    THEN \A i \in findProductById(update.id) :
             \A f \in DOMAIN update.data \cap ProductPaths :
                 productsAfter[i][f] = update.data[f]
    ELSE \A i \in findById(update.id) :
             usersAfter[i] = Updated(usersAfter[i], update.body)

\* C26: of two update requests on the same product or the same user that
\* run concurrently, the one that writes second is answered 200 like the
\* first, and every field it sets holds its value afterwards: the last
\* write wins.
C26_ConcurrentUpdatesLastWriteWins ==
    [][\A update \in updates :
           (update \notin updates' /\ request'.storeOk /\ Overlapped(update))
               => /\ response'.status = 200
                  /\ HoldsValuesOf(update, products', users')]_vars

(***************************************************************************)
(* AdminPanel: checkAuth, login and logout of the browser                  *)
(***************************************************************************)

\* the tokens the server answers a login with
PanelTokens == {"t1", "t2", "t3"}

\* the emails administrators log in with
PanelEmails == {"a@x.com", "b@x.com", "c@x.com"}

\* response.data.user of the profile and login responses: the panel shows
\* its name and role
PanelUsers == [email : PanelEmails, role : Roles]

\* the page loads: the component mounts with fresh state and fresh axios
\* defaults, and its effect runs checkAuth up to the profile request.
\* localStorage is what the last visit left; calls of the page before
\* are gone.
PanelMount ==
    /\ panel' =
           IF panel.adminToken = "null"
           THEN [PanelUnmounted EXCEPT !.loading = FALSE]
           ELSE [PanelUnmounted EXCEPT !.adminToken = panel.adminToken,
                                       !.authorization = panel.adminToken,
                                       !.checkAuth = "awaiting"]
    /\ UNCHANGED <<loggerVars, backendVars, users, pending, sessions, products, updates>>

\* checkAuth after `await axios.get('/api/admin/users/profile')`: the
\* request succeeded, or it threw and the catch block ran; then finally
CheckAuthSettles(ok, user) ==
    /\ panel.checkAuth = "awaiting"
    /\ panel' =
           IF ok
           THEN [panel EXCEPT !.isAuthenticated = TRUE, !.user = user,
                              !.loading = FALSE, !.checkAuth = "idle"]
           ELSE [panel EXCEPT !.adminToken = "null", !.isAuthenticated = FALSE,
                              !.user = PanelUnmounted.user, !.loading = FALSE,
                              !.checkAuth = "idle"]
    /\ UNCHANGED <<loggerVars, backendVars, users, pending, sessions, products, updates>>

\* the login form calls login(email, password): the request is sent
LoginCall(email) ==
    /\ ~panel.loading
    /\ ~panel.isAuthenticated
    /\ email \notin panel.login
    /\ Cardinality(panel.login) < MaxPending
    /\ panel' = [panel EXCEPT !.login = @ \cup {email}]
    /\ UNCHANGED <<loggerVars, backendVars, users, pending, sessions, products, updates>>

\* login after `await axios.post('/api/admin/users/login', ...)`: the
\* response carries a token, or the request threw
LoginSettles(email, ok, token, user) ==
    /\ email \in panel.login
    /\ user.email = email
    /\ panel' =
           IF ok
           THEN [panel EXCEPT !.adminToken = token, !.authorization = token,
                              !.isAuthenticated = TRUE, !.user = user,
                              !.login = @ \ {email}]
           ELSE [panel EXCEPT !.login = @ \ {email}]
    /\ UNCHANGED <<loggerVars, backendVars, users, pending, sessions, products, updates>>

\* the logout button of the authenticated panel
Logout ==
    /\ ~panel.loading
    /\ panel.isAuthenticated
    /\ panel' = [panel EXCEPT !.adminToken = "null", !.authorization = "none",
                              !.isAuthenticated = FALSE, !.user = PanelUnmounted.user]
    /\ UNCHANGED <<loggerVars, backendVars, users, pending, sessions, products, updates>>

NextPanel ==
    \/ PanelMount
    \/ \E ok \in BOOLEAN, user \in PanelUsers : CheckAuthSettles(ok, user)
    \/ \E email \in PanelEmails : LoginCall(email)
    \/ \E email \in PanelEmails, ok \in BOOLEAN, token \in PanelTokens,
          user \in PanelUsers :
           LoginSettles(email, ok, token, user)
    \/ Logout

SpecPanel == InitStats /\ [][NextPanel]_vars

\* no call of checkAuth or login is waiting for its response
PanelSettled == ~panel.loading /\ panel.checkAuth = "idle" /\ panel.login = {}

\* C30: after any sequence of checkAuth, login and logout that have run to
\* their end, the axios Authorization header is set only while an adminToken
\* is stored in localStorage and isAuthenticated is true.
C30_HeaderOnlyWithTokenAndAuthenticated ==
    (PanelSettled /\ panel.authorization # "none")
        => panel.adminToken # "null" /\ panel.isAuthenticated

====
